---- MODULE Spec2Model ----
(***************************************************************************)
(* Keyframe scheduling, mask propagation and mask interpolation of the     *)
(* video segmentation pipeline (src/video_segmentation.py) and of the      *)
(* standalone pipeline (src/simple_segment.py).                            *)
(*                                                                         *)
(* Eleven specifications share the module:                                 *)
(*   SpecKf   the keyframe selectors, applied to bounded inputs            *)
(*   SpecFb   VideoProcessor._fallback_processing on an arbitrary store    *)
(*   Spec     VideoProcessor.process_video_with_keypoints, one run         *)
(*   SpecScn  the same run on a 30-frame video with one memory error       *)
(*   SpecMain main() under the __main__ guard, up to the exit status       *)
(*   SpecSave VideoProcessor.save_results, frame by frame                  *)
(*   SpecRange  propagate_in_video, its loop over the keyframe sub-segments*)
(*   SpecPts    auto_keypoints, the points of each keyframe                *)
(*   SpecSimple simple_segment.process_video, keyframe and interpolation   *)
(*              passes                                                     *)
(*   SpecAdd    VideoProcessor.add_points on an arbitrary store            *)
(*   SpecFbIds  _fallback_processing on stores holding a second object     *)
(***************************************************************************)
EXTENDS Integers, Sequences, FiniteSets, TLC

(***************************************************************************)
(* Bounds of the model.                                                    *)
(***************************************************************************)
MaxKfFrames == 7
MaxKfInterval == 4
MaxKfNum == 4
MaxFbFrames == 4
NPix == 1
MaxFrames == 4
MaxInterval == 2
MaxSteps == 2
MaxFaults == 2
MaxKeys == 2
MaxSaveFrames == 2
MaxDim == 2

(***************************************************************************)
(* Python helpers.                                                         *)
(***************************************************************************)
Max2(a, b) == IF a >= b THEN a ELSE b

Min2(a, b) == IF a <= b THEN a ELSE b

\* list(range(a, b, step)) for step >= 1
RECURSIVE PyRange(_, _, _)
PyRange(a, b, step) ==
    IF a >= b THEN << >> ELSE << a >> \o PyRange(a + step, b, step)

SeqRange(s) == { s[i] : i \in 1..Len(s) }

\* sorted(set(s)) for a list of integers
RECURSIVE SortedOfSet(_)
SortedOfSet(S) ==
    IF S = {} THEN << >>
    ELSE LET m == CHOOSE x \in S : \A y \in S : x <= y
         IN  << m >> \o SortedOfSet(S \ {m})

StrictlyIncreasing(s) == \A i \in 1..(Len(s) - 1) : s[i] < s[i + 1]

(***************************************************************************)
(* Keyframe selectors.                                                     *)
(***************************************************************************)
\* simple_segment.generate_keypoints with keyframe_interval given: the keys
\* of the returned dict, in insertion order.
GenerateKeyframes(total_frames, keyframe_interval) ==
    LET k0 == PyRange(0, total_frames, keyframe_interval)
        k1 == IF 0 \notin SeqRange(k0) THEN << 0 >> \o k0 ELSE k0
        k2 == IF (total_frames - 1) \notin SeqRange(k1)
              THEN Append(k1, total_frames - 1) ELSE k1
        k3 == SortedOfSet(SeqRange(k2))
    IN  SelectSeq(k3, LAMBDA idx : ~(idx >= total_frames))

\* variant: end_idx - 1 is not appended
PropKeyframesNoLast(start_idx, end_idx, keyframe_interval) ==
    PyRange(start_idx, end_idx, keyframe_interval)

\* variant: only the two ends of the range are keyframes
PropKeyframesEndpoints(start_idx, end_idx, keyframe_interval) ==
    IF end_idx - 1 = start_idx THEN << start_idx >> ELSE << start_idx, end_idx - 1 >>

\* The keyframe list VideoProcessor.propagate_in_video builds.
PropKeyframes(start_idx, end_idx, keyframe_interval) ==
    LET k0 == PyRange(start_idx, end_idx, keyframe_interval)
    IN  IF (end_idx - 1) \notin SeqRange(k0) THEN Append(k0, end_idx - 1) ELSE k0

\* variant: the sub-segment ends before its closing keyframe
SubSegmentHalfOpen(kfs, i) == [kf_start |-> kfs[i], kf_end |-> kfs[i + 1]]

\* propagate_in_video: kf_start and kf_end of iteration i (1-based) of the loop
\* over the keyframes
SubSegment(kfs, i) == [kf_start |-> kfs[i], kf_end |-> kfs[i + 1] + 1]

\* auto_keypoints: frame_step
FrameStep(frame_count, num_keypoints) ==
    Max2(1, frame_count \div (num_keypoints + 1))

RECURSIVE AutoLoop(_, _, _, _)
AutoLoop(i, num_keypoints, frame_step, frame_count) ==
    IF i >= num_keypoints THEN << >>
    ELSE IF ~(i * frame_step < frame_count) THEN << >>
    ELSE << i * frame_step >> \o AutoLoop(i + 1, num_keypoints, frame_step, frame_count)

\* variant: frame_step = max(1, frame_count // num_keypoints)
AutoKeyframesStepBug(frame_count, num_keypoints) ==
    LET first == IF frame_count > 0 THEN << 0 >> ELSE << >>
    IN  first \o AutoLoop(1, num_keypoints,
                          Max2(1, frame_count \div num_keypoints), frame_count)

\* auto_keypoints: the keys of keypoints_dict in insertion order.  A frame
\* can be read exactly when its index is below frame_count.
AutoKeyframes(frame_count, num_keypoints) ==
    LET first == IF frame_count > 0 THEN << 0 >> ELSE << >>
    IN  first \o AutoLoop(1, num_keypoints,
                          FrameStep(frame_count, num_keypoints), frame_count)

(***************************************************************************)
(* Masks and the mask store.                                               *)
(***************************************************************************)
Pixels == 1..NPix

\* an Object Mask: a boolean array over the pixels of a frame
Masks == [Pixels -> BOOLEAN]

\* VideoProcessor.current_obj_id
current_obj_id == 1

\* frame_idx in self.video_segments and
\* self.current_obj_id in self.video_segments[frame_idx]
HasMask(vs, f) == f \in DOMAIN vs /\ current_obj_id \in DOMAIN vs[f]

\* variant: the entry of the frame is replaced by one holding obj_id alone
StoreMaskReplace(vs, f, obj_id, mask) ==
    [g \in (DOMAIN vs) \cup {f} |-> IF g = f THEN (obj_id :> mask) ELSE vs[g]]

\* if f not in video_segments: video_segments[f] = {};
\* video_segments[f][obj_id] = mask
StoreMask(vs, f, obj_id, mask) ==
    LET inner == IF f \in DOMAIN vs THEN vs[f] ELSE << >>
        inner2 == [o \in (DOMAIN inner) \cup {obj_id} |->
                        IF o = obj_id THEN mask ELSE inner[o]]
    IN  [g \in (DOMAIN vs) \cup {f} |-> IF g = f THEN inner2 ELSE vs[g]]

B2I(b) == IF b THEN 1 ELSE 0

(***************************************************************************)
(* VideoProcessor._fallback_processing.                                    *)
(***************************************************************************)
\* before_frames: the frames of range(f, -1, -1) that hold a mask, in that order
RECURSIVE BeforeFrames(_, _)
BeforeFrames(vs, f) ==
    IF f < 0 THEN << >>
    ELSE (IF HasMask(vs, f) THEN << f >> ELSE << >>) \o BeforeFrames(vs, f - 1)

\* after_frames: the frames of range(f, frame_count) that hold a mask, in that
\* order
RECURSIVE AfterFrames(_, _, _)
AfterFrames(vs, f, fcount) ==
    IF f >= fcount THEN << >>
    ELSE (IF HasMask(vs, f) THEN << f >> ELSE << >>) \o AfterFrames(vs, f + 1, fcount)

\* variant: the last element of before_frames is taken
BeforeFrameLowest(vs, start_idx) ==
    LET before_frames == BeforeFrames(vs, start_idx - 1)
    IN  IF before_frames = << >> THEN -1 ELSE before_frames[Len(before_frames)]

\* before_frame = before_frames[0] if before_frames else None; -1 stands for
\* None
BeforeFrame(vs, start_idx) ==
    LET before_frames == BeforeFrames(vs, start_idx - 1)
    IN  IF before_frames = << >> THEN -1 ELSE before_frames[1]

\* after_frame = after_frames[0] if after_frames else None; -1 stands for None
AfterFrame(vs, end_idx, fcount) ==
    LET after_frames == AfterFrames(vs, end_idx, fcount)
    IN  IF after_frames = << >> THEN -1 ELSE after_frames[1]

\* variant: the threshold is >= 0.5
InterpMaskGe(before_mask, after_mask, num, den) ==
    [p \in Pixels |->
        2 * (num * B2I(after_mask[p]) + (den - num) * B2I(before_mask[p])) >= den]

\* (alpha * after_mask + (1 - alpha) * before_mask) > 0.5 with
\* alpha = num / den, num = frame_idx - before_frame,
\* den = after_frame - before_frame > 0.  Multiplied through by 2 * den; for
\* frame indices the floating-point comparison agrees with the exact one.
InterpMask(before_mask, after_mask, num, den) ==
    [p \in Pixels |->
        2 * (num * B2I(after_mask[p]) + (den - num) * B2I(before_mask[p])) > den]

\* variant: a frame that already holds a mask is not skipped
FallbackFrameNoSkip(vs, frame_idx, before_frame, after_frame) ==
    IF before_frame # -1 /\ after_frame # -1 THEN
        [vs |-> StoreMask(vs, frame_idx, current_obj_id,
                    InterpMask(vs[before_frame][current_obj_id],
                               vs[after_frame][current_obj_id],
                               frame_idx - before_frame,
                               after_frame - before_frame)),
         warn |-> FALSE]
    ELSE IF before_frame # -1 THEN
        [vs |-> StoreMask(vs, frame_idx, current_obj_id,
                          vs[before_frame][current_obj_id]),
         warn |-> FALSE]
    ELSE IF after_frame # -1 THEN
        [vs |-> StoreMask(vs, frame_idx, current_obj_id,
                          vs[after_frame][current_obj_id]),
         warn |-> FALSE]
    ELSE [vs |-> vs, warn |-> TRUE]

\* variant: the "elif after_frame is not None" branch is missing
FallbackFrameNoAfter(vs, frame_idx, before_frame, after_frame) ==
    IF HasMask(vs, frame_idx) THEN [vs |-> vs, warn |-> FALSE]
    ELSE IF before_frame # -1 /\ after_frame # -1 THEN
        [vs |-> StoreMask(vs, frame_idx, current_obj_id,
                    InterpMask(vs[before_frame][current_obj_id],
                               vs[after_frame][current_obj_id],
                               frame_idx - before_frame,
                               after_frame - before_frame)),
         warn |-> FALSE]
    ELSE IF before_frame # -1 THEN
        [vs |-> StoreMask(vs, frame_idx, current_obj_id,
                          vs[before_frame][current_obj_id]),
         warn |-> FALSE]
    ELSE [vs |-> vs, warn |-> TRUE]

\* variant: with no reference an empty (all-False) mask is stored
FallbackFrameZeroFill(vs, frame_idx, before_frame, after_frame) ==
    IF HasMask(vs, frame_idx) THEN [vs |-> vs, warn |-> FALSE]
    ELSE IF before_frame # -1 /\ after_frame # -1 THEN
        [vs |-> StoreMask(vs, frame_idx, current_obj_id,
                    InterpMask(vs[before_frame][current_obj_id],
                               vs[after_frame][current_obj_id],
                               frame_idx - before_frame,
                               after_frame - before_frame)),
         warn |-> FALSE]
    ELSE IF before_frame # -1 THEN
        [vs |-> StoreMask(vs, frame_idx, current_obj_id,
                          vs[before_frame][current_obj_id]),
         warn |-> FALSE]
    ELSE IF after_frame # -1 THEN
        [vs |-> StoreMask(vs, frame_idx, current_obj_id,
                          vs[after_frame][current_obj_id]),
         warn |-> FALSE]
    ELSE [vs |-> StoreMask(vs, frame_idx, current_obj_id,
                           [p \in Pixels |-> FALSE]),
          warn |-> TRUE]

\* One iteration of the loop over range(start_idx, end_idx): the store
\* afterwards and whether the "no reference masks" warning was printed.
FallbackFrame(vs, frame_idx, before_frame, after_frame) ==
    IF HasMask(vs, frame_idx) THEN [vs |-> vs, warn |-> FALSE]
    ELSE IF before_frame # -1 /\ after_frame # -1 THEN
        [vs |-> StoreMask(vs, frame_idx, current_obj_id,
                    InterpMask(vs[before_frame][current_obj_id],
                               vs[after_frame][current_obj_id],
                               frame_idx - before_frame,
                               after_frame - before_frame)),
         warn |-> FALSE]
    ELSE IF before_frame # -1 THEN
        [vs |-> StoreMask(vs, frame_idx, current_obj_id,
                          vs[before_frame][current_obj_id]),
         warn |-> FALSE]
    ELSE IF after_frame # -1 THEN
        [vs |-> StoreMask(vs, frame_idx, current_obj_id,
                          vs[after_frame][current_obj_id]),
         warn |-> FALSE]
    ELSE [vs |-> vs, warn |-> TRUE]

\* for frame_idx in range(start_idx, end_idx): ...
RECURSIVE FallbackLoop(_, _, _, _, _, _)
FallbackLoop(vs, warned, frame_idx, end_idx, before_frame, after_frame) ==
    IF frame_idx >= end_idx THEN [vs |-> vs, warned |-> warned]
    ELSE LET r == FallbackFrame(vs, frame_idx, before_frame, after_frame)
         IN  FallbackLoop(r.vs,
                          IF r.warn THEN warned \cup {frame_idx} ELSE warned,
                          frame_idx + 1, end_idx, before_frame, after_frame)

\* _fallback_processing(start_idx, end_idx): the store afterwards and the
\* frames a warning was printed for
FallbackProcessing(vs, start_idx, end_idx, fcount) ==
    FallbackLoop(vs, {}, start_idx, end_idx,
                 BeforeFrame(vs, start_idx), AfterFrame(vs, end_idx, fcount))

VARIABLES
    kN,          \* frame count handed to the keyframe selectors
    kInterval,   \* keyframe_interval
    kNum,        \* num_keypoints
    kf_fixed,    \* keys returned by generate_keypoints
    kf_prop,     \* keyframes built by propagate_in_video(0, kN)
    kf_auto,     \* keys returned by auto_keypoints
    kdone,       \* which selectors have run
    frame_count,     \* VideoProcessor.frame_count
    video_segments,  \* VideoProcessor.video_segments: frame -> obj id -> mask
    warnings,        \* frames a "no reference masks" warning was printed for
    fb_calls,    \* calls of _fallback_processing made so far
    fb_start,    \* start_idx of these calls
    fb_end,      \* end_idx of these calls
    fb_pre,      \* the mask store before the first call
    fb_mid,      \* the mask store after the first call
    keypoints_dict,     \* the annotated frames (keys of keypoints_dict)
    keyframe_interval,  \* VideoProcessor.keyframe_interval
    propagation_steps,  \* VideoProcessor.propagation_steps
    oracle_mask,        \* the mask the Oracle returns
    scene_annotations,  \* frames holding an annotation record
    pc,                 \* position in process_video_with_keypoints
    ret,                \* its return value: "running", "None" or "True"
    seg_i,              \* index into annotated_frames (from 1)
    keyframes,          \* keyframes of the running propagate_in_video call
    sub_i,              \* index into keyframes (from 1)
    kf_start,           \* the running segment, [kf_start, kf_end)
    kf_end,
    pass_idx,           \* pass of the running propagation loop
    out_frame_idx,      \* frame the Oracle's sequence yields next
    origin,             \* frame -> who wrote its mask, in which pass
    err,                \* error the primary Oracle raised in this segment
    cpu_built,          \* a CPU predictor was requested for this segment
    cpu_failed,         \* the CPU retry of this segment raised
    seg_fb,             \* _fallback_processing ran for this segment
    cpu_primed,         \* frame whose record primed the CPU context, -1: none
    faults,             \* exceptions the Oracle has raised while propagating
    rejected,           \* keyframes for which add_points returned None
    all_failed,         \* every segment handled so far ended in the fallback
    fb_frames,          \* frames of the ranges given to _fallback_processing
    temp_dir,           \* the temp_frames directory exists
    out_frames,         \* frames written to segmentation_overlay.mp4
    mask_out_frames,    \* frames written to segmentation_masks.mp4
    \* main() of video_segmentation.py
    video_exists,       \* os.path.exists(video_path)
    checkpoint_exists,  \* os.path.exists(checkpoint_path)
    config_exists,      \* os.path.exists(config_path)
    can_load,           \* build_sam2_video_predictor succeeds
    can_open,           \* cv2.VideoCapture(video_path).isOpened()
    auto_keys,          \* frames auto_keypoints finds annotation points for
    m_pc,               \* position in main
    messages,           \* what has been printed
    output_dirs,        \* the output directories exist
    process_called,     \* process_video_with_keypoints was called
    results_saved,      \* save_results ran to its end
    raised,             \* class of the exception leaving main, or "none"
    exit_status,        \* exit status of the process, -1 while it runs
    \* save_results, frame by frame
    height,             \* VideoProcessor.height
    width,              \* VideoProcessor.width
    sv_pc,              \* position in save_results
    frame_idx,          \* frame_idx of its loop
    out,                \* frames written to the overlay video, in order
    mask_out,           \* frames written to the mask video, in order
    store0,             \* video_segments when save_results was called
    \* propagate_in_video(start_idx, end_idx): its loop over the sub-segments
    rg_start,           \* start_idx
    rg_end,             \* end_idx
    rg_interval,        \* VideoProcessor.keyframe_interval
    rg_keyframes,       \* the keyframes list
    rg_i,               \* i of the loop, 1-based
    rg_pc,              \* position in propagate_in_video
    rg_visited,         \* the (kf_start, kf_end) pairs of the iterations, in order
    rg_writes,          \* frame -> number of sub-segments that recorded its mask
    \* auto_keypoints: the points of each keyframe
    pt_w,               \* width of the frames
    pt_h,               \* height of the frames
    pt_contours,        \* contours found in a frame looked at by the loop
    pt_first_ok,        \* ret of the read of the first frame
    pt_nread,           \* how many reads of the loop succeed
    pt_step,            \* frame_step
    pt_i,               \* i of the loop
    pt_pc,              \* position in auto_keypoints
    pt_prev,            \* prev_frame is not None
    pt_points,          \* keypoints_dict: frame -> list of (x, y, label)
    pt_branch,          \* frame -> "grid" or "motion": where its positives came from
    \* simple_segment.process_video
    ss_N,               \* len(frame_files)
    ss_interval,        \* keyframe_interval
    ss_keys,            \* keypoints.keys(), in order
    ss_masks,           \* masks: frame -> mask
    ss_pc,              \* position in process_video
    ss_i,               \* index of the loop in progress
    ss_branches,        \* branches the interpolation pass has taken
    \* VideoProcessor.add_points
    ap_calls,           \* calls of add_points made so far
    ap_frame,           \* frame_idx of the latest call
    ap_empty,           \* points or labels of the latest call were empty
    ap_pre,             \* video_segments before the latest call
    ap_ret,             \* what the latest call returned
    ap_called           \* the latest call reached the Oracle

kfVars == << kN, kInterval, kNum, kf_fixed, kf_prop, kf_auto, kdone >>

storeVars == << frame_count, video_segments, warnings >>

fbVars == << fb_calls, fb_start, fb_end, fb_pre, fb_mid >>

inputVars == << keypoints_dict, keyframe_interval, propagation_steps, oracle_mask >>

ctlVars == << pc, ret, seg_i, keyframes, sub_i, kf_start, kf_end, pass_idx,
              out_frame_idx >>

segVars == << err, cpu_built, cpu_failed, seg_fb, cpu_primed >>

histVars == << rejected, all_failed, fb_frames >>

outVars == << temp_dir, out_frames, mask_out_frames >>

runVars == << inputVars, ctlVars, segVars, outVars, scene_annotations, origin,
              faults, histVars >>

mainVars == << video_exists, checkpoint_exists, config_exists, can_load, can_open,
               auto_keys, m_pc, messages, output_dirs, process_called,
               results_saved, raised, exit_status >>

saveVars == << height, width, sv_pc, frame_idx, out, mask_out, store0 >>

rgVars == << rg_start, rg_end, rg_interval, rg_keyframes, rg_i, rg_pc, rg_visited,
            rg_writes >>

ptVars == << pt_w, pt_h, pt_contours, pt_first_ok, pt_nread, pt_step, pt_i, pt_pc,
            pt_prev, pt_points, pt_branch >>

coreVars == << kfVars, storeVars, fbVars, runVars, mainVars, saveVars >>

ssVars == << ss_N, ss_interval, ss_keys, ss_masks, ss_pc, ss_i, ss_branches >>

apVars == << ap_calls, ap_frame, ap_empty, ap_pre, ap_ret, ap_called >>

extVars == << rgVars, ptVars, ssVars, apVars >>

auxVars == << mainVars, saveVars, extVars >>

vars == << kfVars, storeVars, fbVars, runVars, auxVars >>

\* an exception: its class, and whether its message holds "out of memory"
Errors == [cls : {"RuntimeError", "Exception"}, oom : BOOLEAN]

NoErr == [cls |-> "none", oom |-> FALSE]

RunIdle ==
    /\ keypoints_dict = {} /\ keyframe_interval = 1 /\ propagation_steps = 0
    /\ oracle_mask = [p \in Pixels |-> FALSE]
    /\ scene_annotations = {} /\ pc = "idle" /\ ret = "running"
    /\ seg_i = 0 /\ keyframes = << >> /\ sub_i = 0
    /\ kf_start = 0 /\ kf_end = 0 /\ pass_idx = 0 /\ out_frame_idx = 0
    /\ origin = << >>
    /\ err = NoErr /\ cpu_built = FALSE /\ cpu_failed = FALSE /\ seg_fb = FALSE
    /\ cpu_primed = -1
    /\ temp_dir = FALSE /\ out_frames = 0 /\ mask_out_frames = 0
    /\ faults = 0
    /\ rejected = {} /\ all_failed = TRUE /\ fb_frames = {}

MainIdle ==
    /\ video_exists = FALSE /\ checkpoint_exists = FALSE /\ config_exists = FALSE
    /\ can_load = FALSE /\ can_open = FALSE /\ auto_keys = {}
    /\ m_pc = "idle" /\ messages = {} /\ output_dirs = FALSE
    /\ process_called = FALSE /\ results_saved = FALSE
    /\ raised = "none" /\ exit_status = -1

SaveIdle ==
    /\ height = 1 /\ width = 1 /\ sv_pc = "idle" /\ frame_idx = 0
    /\ out = << >> /\ mask_out = << >> /\ store0 = << >>

RgIdle ==
    /\ rg_start = 0 /\ rg_end = 0 /\ rg_interval = 1 /\ rg_keyframes = << >>
    /\ rg_i = 0 /\ rg_pc = "idle" /\ rg_visited = << >> /\ rg_writes = << >>

PtIdle ==
    /\ pt_w = 0 /\ pt_h = 0 /\ pt_contours = << >> /\ pt_first_ok = FALSE
    /\ pt_nread = 0 /\ pt_step = 1 /\ pt_i = 0 /\ pt_pc = "idle" /\ pt_prev = FALSE
    /\ pt_points = << >> /\ pt_branch = << >>

SsIdle ==
    /\ ss_N = 0 /\ ss_interval = 0 /\ ss_keys = << >> /\ ss_masks = << >>
    /\ ss_pc = "idle" /\ ss_i = 0 /\ ss_branches = {}

\* what add_points returns: None, or a mask
NoneRet == [none |-> TRUE, mask |-> << >>]

ApIdle ==
    /\ ap_calls = 0 /\ ap_frame = 0 /\ ap_empty = FALSE /\ ap_pre = << >>
    /\ ap_ret = NoneRet /\ ap_called = FALSE

ExtIdle == RgIdle /\ PtIdle /\ SsIdle /\ ApIdle

StoreIdle == frame_count = 0 /\ video_segments = << >> /\ warnings = {}

FbIdle ==
    /\ fb_calls = 0 /\ fb_start = 0 /\ fb_end = 0
    /\ fb_pre = << >> /\ fb_mid = << >>

KfIdle ==
    /\ kN = 1 /\ kInterval = 1 /\ kNum = 1
    /\ kf_fixed = << >> /\ kf_prop = << >> /\ kf_auto = << >>
    /\ kdone = {}

InitKf ==
    /\ kN \in 1..MaxKfFrames
    /\ kInterval \in 1..MaxKfInterval
    /\ kNum \in 1..MaxKfNum
    /\ kf_fixed = << >> /\ kf_prop = << >> /\ kf_auto = << >>
    /\ kdone = {}
    /\ StoreIdle /\ FbIdle /\ RunIdle /\ MainIdle /\ SaveIdle /\ ExtIdle

CallGenerateKeypoints ==
    /\ "generate" \notin kdone
    /\ kf_fixed' = GenerateKeyframes(kN, kInterval)
    /\ kdone' = kdone \cup {"generate"}
    /\ UNCHANGED << kN, kInterval, kNum, kf_prop, kf_auto >>
    /\ UNCHANGED << storeVars, fbVars, runVars, auxVars >>

CallPropKeyframes ==
    /\ "propagate" \notin kdone
    /\ kf_prop' = PropKeyframes(0, kN, kInterval)
    /\ kdone' = kdone \cup {"propagate"}
    /\ UNCHANGED << kN, kInterval, kNum, kf_fixed, kf_auto >>
    /\ UNCHANGED << storeVars, fbVars, runVars, auxVars >>

CallAutoKeypoints ==
    /\ "auto" \notin kdone
    /\ kf_auto' = AutoKeyframes(kN, kNum)
    /\ kdone' = kdone \cup {"auto"}
    /\ UNCHANGED << kN, kInterval, kNum, kf_fixed, kf_prop >>
    /\ UNCHANGED << storeVars, fbVars, runVars, auxVars >>

NextKf ==
    \/ CallGenerateKeypoints
    \/ CallPropKeyframes
    \/ CallAutoKeypoints

SpecKf == InitKf /\ [][NextKf]_vars

(***************************************************************************)
(* C2: for N >= 2 and k >= 1 the fixed-interval keyframe list, of          *)
(* generate_keypoints and of propagate_in_video(0, N), is exactly          *)
(* {0, k, 2k, ... below N} with N-1 added: strictly increasing, within     *)
(* [0, N), holding frame 0 and frame N-1.                                  *)
(***************************************************************************)
FixedIntervalSet(N, k) == { f \in 0..(N - 1) : f % k = 0 } \cup { N - 1 }

IsFixedIntervalList(s, N, k) ==
    /\ StrictlyIncreasing(s)
    /\ SeqRange(s) = FixedIntervalSet(N, k)
    /\ Len(s) = Cardinality(FixedIntervalSet(N, k))
    /\ s[1] = 0
    /\ s[Len(s)] = N - 1

C2_FixedIntervalKeyframes ==
    kN >= 2 =>
        /\ "generate" \in kdone => IsFixedIntervalList(kf_fixed, kN, kInterval)
        /\ "propagate" \in kdone => IsFixedIntervalList(kf_prop, kN, kInterval)

\* both selectors have run on a video whose last frame is not a multiple of k
C2_Witness ==
    /\ kN >= 4 /\ kInterval >= 2 /\ (kN - 1) % kInterval # 0
    /\ {"generate", "propagate"} \subseteq kdone
    /\ kf_fixed = kf_prop
    /\ Len(kf_prop) >= 3

(***************************************************************************)
(* C3 as stated: for N >= 2 and n >= 1 the keys of auto_keypoints hold     *)
(* frame 0 and frame N-1.                                                  *)
(***************************************************************************)
C3_AutoHasFirstAndLast ==
    (kN >= 2 /\ "auto" \in kdone) =>
        /\ 0 \in SeqRange(kf_auto)
        /\ (kN - 1) \in SeqRange(kf_auto)

(***************************************************************************)
(* C3 amended: the keys of auto_keypoints are exactly the multiples        *)
(* i * frame_step, 0 <= i < n, that lie below N, in increasing order, with *)
(* frame_step = max(1, N div (n+1)); frame 0 is always a key, frame N-1    *)
(* only when it is one of these multiples.                                 *)
(***************************************************************************)
C3_AutoKeysAreMultiples ==
    (kN >= 2 /\ "auto" \in kdone) =>
        LET step == IF kN \div (kNum + 1) >= 1 THEN kN \div (kNum + 1) ELSE 1
            keys == { f \in 0..(kN - 1) : f % step = 0 /\ f \div step < kNum }
        IN  /\ SeqRange(kf_auto) = keys
            /\ StrictlyIncreasing(kf_auto)
            /\ kf_auto[1] = 0

\* auto_keypoints has run and its last key is not the last frame
C3_Witness ==
    /\ kN >= 2 /\ "auto" \in kdone
    /\ Len(kf_auto) >= 2
    /\ kf_auto[Len(kf_auto)] < kN - 1

(***************************************************************************)
(* SpecFb: _fallback_processing called, and called again, on a range of an *)
(* arbitrary mask store.                                                   *)
(***************************************************************************)
\* every store holding masks of the tracked object for some frames
Stores(fcount) ==
    UNION { [F -> [{current_obj_id} -> Masks]] : F \in SUBSET (0..(fcount - 1)) }

InitFb ==
    /\ frame_count \in 1..MaxFbFrames
    /\ video_segments \in Stores(frame_count)
    /\ warnings = {}
    /\ FbIdle /\ KfIdle /\ RunIdle /\ MainIdle /\ SaveIdle /\ ExtIdle

FbFirstCall ==
    /\ fb_calls = 0
    /\ \E s \in 0..(frame_count - 1) : \E e \in (s + 1)..frame_count :
        LET r == FallbackProcessing(video_segments, s, e, frame_count)
        IN  /\ fb_start' = s /\ fb_end' = e
            /\ fb_pre' = video_segments
            /\ video_segments' = r.vs
            /\ fb_mid' = r.vs
            /\ warnings' = r.warned
    /\ fb_calls' = 1
    /\ UNCHANGED << frame_count, kfVars, runVars, auxVars >>

FbSecondCall ==
    /\ fb_calls = 1
    /\ LET r == FallbackProcessing(video_segments, fb_start, fb_end, frame_count)
       IN  /\ video_segments' = r.vs
           /\ warnings' = r.warned
    /\ fb_calls' = 2
    /\ UNCHANGED << frame_count, fb_start, fb_end, fb_pre, fb_mid, kfVars, runVars,
                    auxVars >>

NextFb ==
    \/ FbFirstCall
    \/ FbSecondCall

SpecFb == InitFb /\ [][NextFb]_vars

\* the references of the recorded call, read off the store before the call
FbRange == fb_start..(fb_end - 1)

FbMasked(f) == f \in DOMAIN fb_pre /\ current_obj_id \in DOMAIN fb_pre[f]

FbBelow == { f \in 0..(fb_start - 1) : FbMasked(f) }

FbAbove == { f \in fb_end..(frame_count - 1) : FbMasked(f) }

FbBefore == CHOOSE f \in FbBelow : \A g \in FbBelow : g <= f

FbAfter == CHOOSE f \in FbAbove : \A g \in FbAbove : f <= g

FbGap == { f \in FbRange : ~FbMasked(f) }

(***************************************************************************)
(* C4 as stated: with both references, each unmasked frame f of the range  *)
(* gets, per pixel, the common value where the references agree, and where *)
(* they differ the 'after' value iff 2*(f-before) > (after-before) and the *)
(* 'before' value otherwise.                                               *)
(***************************************************************************)
C4_InterpolationAsStated ==
    (fb_calls >= 1 /\ FbBelow # {} /\ FbAbove # {}) =>
        \A f \in FbGap : \A p \in Pixels :
            LET bm == fb_pre[FbBefore][current_obj_id][p]
                am == fb_pre[FbAfter][current_obj_id][p]
                got == fb_mid[f][current_obj_id][p]
            IN  IF bm = am THEN got = bm
                ELSE IF 2 * (f - FbBefore) > (FbAfter - FbBefore) THEN got = am
                ELSE got = bm

(***************************************************************************)
(* C4 amended: with both references, each unmasked frame f of the range    *)
(* gets, per pixel, the common value where the references agree; where     *)
(* they differ it gets the 'after' value if 2*(f-before) > (after-before), *)
(* the 'before' value if 2*(f-before) < (after-before), and False at the   *)
(* exact midpoint whichever reference is True.  The blend at alpha = 0 is  *)
(* 'before' and at alpha = 1 is 'after'.                                   *)
(***************************************************************************)
C4_Interpolation ==
    /\ (fb_calls >= 1 /\ FbBelow # {} /\ FbAbove # {}) =>
        \A f \in FbGap :
            /\ f \in DOMAIN fb_mid /\ current_obj_id \in DOMAIN fb_mid[f]
            /\ \A p \in Pixels :
                LET bm == fb_pre[FbBefore][current_obj_id][p]
                    am == fb_pre[FbAfter][current_obj_id][p]
                    got == fb_mid[f][current_obj_id][p]
                IN  IF bm = am THEN got = bm
                    ELSE IF 2 * (f - FbBefore) > (FbAfter - FbBefore) THEN got = am
                    ELSE IF 2 * (f - FbBefore) < (FbAfter - FbBefore) THEN got = bm
                    ELSE got = FALSE
    /\ \A bm \in Masks : \A am \in Masks : \A den \in 1..frame_count :
        /\ InterpMask(bm, am, 0, den) = bm
        /\ InterpMask(bm, am, den, den) = am

\* a frame at the exact midpoint of two references that differ, 'before' True
C4_Witness ==
    /\ fb_calls >= 1 /\ FbBelow # {} /\ FbAbove # {}
    /\ \E f \in FbGap : \E p \in Pixels :
        /\ 2 * (f - FbBefore) = FbAfter - FbBefore
        /\ fb_pre[FbBefore][current_obj_id][p]
        /\ ~fb_pre[FbAfter][current_obj_id][p]
        /\ ~fb_mid[f][current_obj_id][p]

(***************************************************************************)
(* C5: with exactly one reference (only 'before', or only 'after'), each   *)
(* unmasked frame of the range gets a mask identical to that reference.    *)
(***************************************************************************)
C5_SingleReferenceCopy ==
    fb_calls >= 1 =>
        /\ (FbBelow # {} /\ FbAbove = {}) =>
            \A f \in FbGap :
                /\ f \in DOMAIN fb_mid /\ current_obj_id \in DOMAIN fb_mid[f]
                /\ fb_mid[f][current_obj_id] = fb_pre[FbBefore][current_obj_id]
        /\ (FbBelow = {} /\ FbAbove # {}) =>
            \A f \in FbGap :
                /\ f \in DOMAIN fb_mid /\ current_obj_id \in DOMAIN fb_mid[f]
                /\ fb_mid[f][current_obj_id] = fb_pre[FbAfter][current_obj_id]

\* a gap of two frames filled from an 'after' reference alone
C5_Witness ==
    /\ fb_calls >= 1 /\ FbBelow = {} /\ FbAbove # {}
    /\ Cardinality(FbGap) >= 2
    /\ \A f \in FbGap : fb_mid[f][current_obj_id] = fb_pre[FbAfter][current_obj_id]
    /\ \E p \in Pixels : fb_pre[FbAfter][current_obj_id][p]

(***************************************************************************)
(* C6: a second call of _fallback_processing on the same range changes     *)
(* nothing the first call left, and a call on a range whose frames all     *)
(* hold a mask leaves the mask store unchanged.                            *)
(***************************************************************************)
C6_FallbackIdempotent ==
    /\ fb_calls = 2 => video_segments = fb_mid
    /\ (fb_calls >= 1 /\ FbGap = {}) => fb_mid = fb_pre

\* a second call after a first one that filled a gap, and a call on a fully
\* masked range with references around it
C6_Witness ==
    \/ /\ fb_calls = 2 /\ FbGap # {} /\ fb_mid # fb_pre
    \/ /\ fb_calls = 1 /\ FbGap = {} /\ FbBelow # {} /\ FbAbove # {}
       /\ Cardinality(FbRange) >= 2

(***************************************************************************)
(* Spec: one run of VideoProcessor.process_video_with_keypoints.           *)
(***************************************************************************)
\* annotated_frames = sorted(keypoints_dict.keys())
annotated_frames == SortedOfSet(keypoints_dict)

\* variant: "except Exception as e"
CaughtByHandlerAny(e) == TRUE

\* "except RuntimeError as e" around the propagation passes
CaughtByHandler(e) == e.cls = "RuntimeError"

\* variant: the message is not inspected
IsMemoryErrorAlways(e) == TRUE

\* if "out of memory" in str(e)
IsMemoryError(e) == e.oom

\* variant: "except RuntimeError as cpu_e"
CpuHandlerCatchesRuntimeOnly(e) == e.cls = "RuntimeError"

\* "except Exception as cpu_e" around the CPU retry
CpuHandlerCatches(e) == e.cls \in {"RuntimeError", "Exception"}

\* variant: a rejected keyframe always ends the run
AfterRejectionReturn(i) == "done"

\* where the run goes when add_points returns None for annotated_frames[i]:
\* "return" for i = 0, "continue" in the segment loop for i > 0
AfterRejection(i) == IF i = 0 THEN "done" ELSE "seg_loop"

\* The frame the primary Oracle's sequence starts at: the first frame its
\* inference state was given points for.
OracleFirstFrame == annotated_frames[1]

\* variant: for f in range(kf_start - 1, -1, -1)
LatestFrameBelow(vs, start) ==
    LET c == { f \in 0..(start - 1) : HasMask(vs, f) }
    IN  IF c = {} THEN -1 ELSE CHOOSE f \in c : \A g \in c : g <= f

\* latest_frame: for f in range(kf_start, -1, -1) ...; -1 stands for None
LatestFrame(vs, start) ==
    LET c == { f \in 0..start : HasMask(vs, f) }
    IN  IF c = {} THEN -1 ELSE CHOOSE f \in c : \A g \in c : g <= f

\* variant: the segment test is missing
RecordAlways(vs, f, lo, hi, mask) == StoreMask(vs, f, current_obj_id, mask)

\* if kf_start <= out_frame_idx < kf_end: store the mask of each object id
Record(vs, f, lo, hi, mask) ==
    IF lo <= f /\ f < hi THEN StoreMask(vs, f, current_obj_id, mask) ELSE vs

Tag(og, f, lo, hi, by, pass) ==
    IF lo <= f /\ f < hi
    THEN [g \in (DOMAIN og) \cup {f} |->
            IF g = f THEN [by |-> by, pass |-> pass] ELSE og[g]]
    ELSE og

TagSet(og, F, by) ==
    [g \in (DOMAIN og) \cup F |->
        IF g \in F THEN [by |-> by, pass |-> 0] ELSE og[g]]

Init ==
    /\ frame_count \in 1..MaxFrames
    /\ keypoints_dict \in SUBSET (0..(frame_count - 1))
    /\ keyframe_interval \in 1..MaxInterval
    /\ propagation_steps \in 0..MaxSteps
    /\ oracle_mask \in Masks
    /\ video_segments = << >>
    /\ scene_annotations = {}
    /\ warnings = {}
    /\ pc = "start" /\ ret = "running"
    /\ seg_i = 0 /\ keyframes = << >> /\ sub_i = 0
    /\ kf_start = 0 /\ kf_end = 0 /\ pass_idx = 0 /\ out_frame_idx = 0
    /\ origin = << >>
    /\ err = NoErr /\ cpu_built = FALSE /\ cpu_failed = FALSE /\ seg_fb = FALSE
    /\ cpu_primed = -1
    /\ temp_dir = FALSE /\ out_frames = 0 /\ mask_out_frames = 0
    /\ faults = 0
    /\ rejected = {} /\ all_failed = TRUE /\ fb_frames = {}
    /\ FbIdle /\ KfIdle /\ MainIdle /\ SaveIdle /\ ExtIdle

\* process_video_with_keypoints up to the segment loop: frames extracted,
\* state initialised, first annotated frame primed through add_points
Begin ==
    /\ pc = "start"
    /\ temp_dir' = TRUE
    /\ IF keypoints_dict = {}
       THEN /\ pc' = "done" /\ ret' = "None"
            /\ UNCHANGED << scene_annotations, video_segments, origin, seg_i,
                            rejected >>
       ELSE LET first_frame == annotated_frames[1]
            IN  /\ scene_annotations' = {first_frame}
                /\ \E accepted \in BOOLEAN :
                    IF accepted
                    THEN /\ video_segments' = StoreMask(video_segments, first_frame,
                                                        current_obj_id, oracle_mask)
                         /\ origin' = TagSet(origin, {first_frame}, "prime")
                         /\ pc' = "seg_loop" /\ ret' = ret /\ seg_i' = 1
                         /\ UNCHANGED rejected
                    ELSE /\ pc' = AfterRejection(0) /\ ret' = "None"
                         /\ rejected' = rejected \cup {first_frame}
                         /\ UNCHANGED << video_segments, origin, seg_i >>
    /\ UNCHANGED << frame_count, warnings, inputVars, keyframes, sub_i, kf_start,
                    kf_end, pass_idx, out_frame_idx, segVars, out_frames,
                    mask_out_frames, kfVars, auxVars, fbVars, faults, all_failed, fb_frames >>

\* variant: the segment loop stops before the last annotated frame
SegmentLoopDoneEarly(i) == i >= Len(annotated_frames)

\* "for i in range(len(annotated_frames))" is exhausted; i is 1-based
SegmentLoopDone(i) == i > Len(annotated_frames)

\* one iteration of "for i in range(len(annotated_frames))" up to the call of
\* propagate_in_video, whose keyframe list is built here
SegmentStart ==
    /\ pc = "seg_loop"
    /\ IF SegmentLoopDone(seg_i)
       THEN /\ pc' = "save"
            /\ UNCHANGED << seg_i, scene_annotations, video_segments, origin,
                            keyframes, sub_i, rejected >>
       ELSE LET current_frame == annotated_frames[seg_i]
                next_frame == IF seg_i < Len(annotated_frames)
                              THEN annotated_frames[seg_i + 1] ELSE frame_count
            IN  IF current_frame = next_frame
                THEN /\ seg_i' = seg_i + 1 /\ pc' = pc
                     /\ UNCHANGED << scene_annotations, video_segments, origin,
                                     keyframes, sub_i, rejected >>
                ELSE IF seg_i > 1
                THEN /\ scene_annotations' = scene_annotations \cup {current_frame}
                     /\ \E accepted \in BOOLEAN :
                         IF accepted
                         THEN /\ video_segments' =
                                    StoreMask(video_segments, current_frame,
                                              current_obj_id, oracle_mask)
                              /\ origin' = TagSet(origin, {current_frame}, "prime")
                              /\ keyframes' = PropKeyframes(current_frame, next_frame,
                                                            keyframe_interval)
                              /\ sub_i' = 1 /\ pc' = "sub_loop" /\ seg_i' = seg_i
                              /\ UNCHANGED rejected
                         ELSE /\ seg_i' = seg_i + 1
                              /\ pc' = AfterRejection(seg_i - 1)
                              /\ rejected' = rejected \cup {current_frame}
                              /\ UNCHANGED << video_segments, origin, keyframes, sub_i >>
                ELSE /\ keyframes' = PropKeyframes(current_frame, next_frame,
                                                   keyframe_interval)
                     /\ sub_i' = 1 /\ pc' = "sub_loop" /\ seg_i' = seg_i
                     /\ UNCHANGED << scene_annotations, video_segments, origin,
                                     rejected >>
    /\ UNCHANGED << frame_count, warnings, inputVars, ret, kf_start, kf_end,
                    pass_idx, out_frame_idx, segVars, outVars, kfVars, auxVars, fbVars, faults,
                    all_failed, fb_frames >>

\* one iteration of "for i in range(len(keyframes) - 1)", or the return of
\* propagate_in_video to the segment loop
SubSegmentStart ==
    /\ pc = "sub_loop"
    /\ IF sub_i > Len(keyframes) - 1
       THEN /\ pc' = "seg_loop" /\ seg_i' = seg_i + 1
            /\ UNCHANGED << kf_start, kf_end, pass_idx, segVars >>
       ELSE /\ kf_start' = SubSegment(keyframes, sub_i).kf_start
            /\ kf_end' = SubSegment(keyframes, sub_i).kf_end
            /\ pass_idx' = 0
            /\ err' = NoErr /\ cpu_built' = FALSE /\ cpu_failed' = FALSE
            /\ seg_fb' = FALSE /\ cpu_primed' = -1
            /\ pc' = "pass_loop" /\ seg_i' = seg_i
    /\ UNCHANGED << storeVars, inputVars, ret, keyframes, sub_i, out_frame_idx,
                    outVars, scene_annotations, origin, kfVars, auxVars, fbVars, faults,
                    histVars >>

\* "for pass_idx in range(self.propagation_steps)": a pass asks the Oracle
\* for a new sequence
PassStart ==
    /\ pc = "pass_loop"
    /\ IF pass_idx >= propagation_steps
       THEN /\ pc' = "sub_loop" /\ sub_i' = sub_i + 1
            /\ all_failed' = FALSE
            /\ UNCHANGED out_frame_idx
       ELSE /\ pc' = "primary_iter" /\ out_frame_idx' = OracleFirstFrame
            /\ UNCHANGED << sub_i, all_failed >>
    /\ UNCHANGED << storeVars, inputVars, ret, seg_i, keyframes, kf_start, kf_end,
                    pass_idx, segVars, outVars, scene_annotations, origin,
                    kfVars, auxVars, fbVars, faults, rejected, fb_frames >>

\* variant: break at kf_start
PassEndsAtSegmentStart(f) == f >= kf_start \/ f + 1 >= frame_count

\* after a yielded frame: break at kf_end - 1, or the sequence has ended
PassEnds(f) == f >= kf_end - 1 \/ f + 1 >= frame_count

\* the primary Oracle yields the next frame of its sequence
PrimaryYield ==
    /\ pc = "primary_iter"
    /\ video_segments' = Record(video_segments, out_frame_idx, kf_start, kf_end,
                                oracle_mask)
    /\ origin' = Tag(origin, out_frame_idx, kf_start, kf_end, "primary", pass_idx)
    /\ IF PassEnds(out_frame_idx)
       THEN /\ pass_idx' = pass_idx + 1 /\ pc' = "pass_loop"
            /\ UNCHANGED out_frame_idx
       ELSE /\ out_frame_idx' = out_frame_idx + 1
            /\ UNCHANGED << pass_idx, pc >>
    /\ UNCHANGED << frame_count, warnings, inputVars, ret, seg_i, keyframes, sub_i,
                    kf_start, kf_end, segVars, outVars, scene_annotations,
                    kfVars, auxVars, fbVars, faults, histVars >>

\* the primary Oracle raises instead of yielding
PrimaryRaise ==
    /\ pc = "primary_iter"
    /\ faults < MaxFaults
    /\ faults' = faults + 1
    /\ \E e \in Errors :
        /\ err' = e
        /\ IF CaughtByHandler(e) /\ IsMemoryError(e)
           THEN pc' = "cpu_retry"
           ELSE pc' = "aborted"
    /\ UNCHANGED << storeVars, inputVars, ret, seg_i, keyframes, sub_i, kf_start,
                    kf_end, pass_idx, out_frame_idx, cpu_built, cpu_failed, seg_fb,
                    cpu_primed, outVars, scene_annotations, origin, kfVars, auxVars, fbVars,
                    histVars >>

\* "except Exception as cpu_e": _fallback_processing(kf_start, kf_end), then
\* the next segment; an exception the handler does not catch ends the run
CpuFailure(e) ==
    /\ cpu_failed' = TRUE
    /\ IF CpuHandlerCatches(e)
       THEN LET r == FallbackProcessing(video_segments, kf_start, kf_end, frame_count)
            IN  /\ fb_pre' = video_segments
                /\ video_segments' = r.vs
                /\ fb_mid' = r.vs
                /\ warnings' = warnings \cup r.warned
                /\ origin' = TagSet(origin, (DOMAIN r.vs) \ (DOMAIN video_segments),
                                    "interp")
                /\ fb_start' = kf_start /\ fb_end' = kf_end
                /\ fb_calls' = fb_calls + 1
                /\ fb_frames' = fb_frames \cup (kf_start..(kf_end - 1))
                /\ seg_fb' = TRUE
                /\ pc' = "sub_loop" /\ sub_i' = sub_i + 1
       ELSE /\ pc' = "aborted"
            /\ UNCHANGED << video_segments, warnings, origin, fbVars, seg_fb, sub_i,
                            fb_frames >>

\* the memory-error handler up to the CPU passes: CPU predictor built, its
\* state initialised, latest_frame found, points re-applied
CpuSetup ==
    /\ pc = "cpu_retry"
    /\ cpu_built' = TRUE
    /\ \/ /\ faults < MaxFaults
          /\ faults' = faults + 1
          /\ \E e \in Errors : CpuFailure(e)
          /\ UNCHANGED << pass_idx, out_frame_idx, cpu_primed, all_failed >>
       \/ /\ LET latest_frame == LatestFrame(video_segments, kf_start)
             IN  IF latest_frame # -1 /\ latest_frame \in scene_annotations
                 THEN /\ cpu_primed' = latest_frame
                      /\ pass_idx' = 0 /\ pc' = "cpu_pass_loop"
                      /\ UNCHANGED << sub_i, all_failed >>
                 ELSE /\ pc' = "sub_loop" /\ sub_i' = sub_i + 1
                      /\ all_failed' = FALSE
                      /\ UNCHANGED << pass_idx, cpu_primed >>
          /\ UNCHANGED << video_segments, warnings, origin, fbVars, cpu_failed,
                          seg_fb, out_frame_idx, faults, fb_frames >>
    /\ UNCHANGED << frame_count, inputVars, ret, seg_i, keyframes, kf_start, kf_end,
                    err, outVars, scene_annotations, kfVars, auxVars, rejected >>

\* "for pass_idx in range(self.propagation_steps)" on the CPU predictor,
\* whose state holds points for kf_start only
CpuPassStart ==
    /\ pc = "cpu_pass_loop"
    /\ IF pass_idx >= propagation_steps
       THEN /\ pc' = "sub_loop" /\ sub_i' = sub_i + 1
            /\ all_failed' = FALSE
            /\ UNCHANGED out_frame_idx
       ELSE /\ pc' = "cpu_iter" /\ out_frame_idx' = kf_start
            /\ UNCHANGED << sub_i, all_failed >>
    /\ UNCHANGED << storeVars, inputVars, ret, seg_i, keyframes, kf_start, kf_end,
                    pass_idx, segVars, outVars, scene_annotations, origin,
                    kfVars, auxVars, fbVars, faults, rejected, fb_frames >>

\* the CPU Oracle yields the next frame of its sequence
CpuYield ==
    /\ pc = "cpu_iter"
    /\ video_segments' = Record(video_segments, out_frame_idx, kf_start, kf_end,
                                oracle_mask)
    /\ origin' = Tag(origin, out_frame_idx, kf_start, kf_end, "cpu", pass_idx)
    /\ IF PassEnds(out_frame_idx)
       THEN /\ pass_idx' = pass_idx + 1 /\ pc' = "cpu_pass_loop"
            /\ UNCHANGED out_frame_idx
       ELSE /\ out_frame_idx' = out_frame_idx + 1
            /\ UNCHANGED << pass_idx, pc >>
    /\ UNCHANGED << frame_count, warnings, inputVars, ret, seg_i, keyframes, sub_i,
                    kf_start, kf_end, segVars, outVars, scene_annotations,
                    kfVars, auxVars, fbVars, faults, histVars >>

\* the CPU Oracle raises instead of yielding
CpuRaise ==
    /\ pc = "cpu_iter"
    /\ faults < MaxFaults
    /\ faults' = faults + 1
    /\ \E e \in Errors : CpuFailure(e)
    /\ UNCHANGED << frame_count, inputVars, ret, seg_i, keyframes, kf_start, kf_end,
                    pass_idx, out_frame_idx, err, cpu_built, cpu_primed, outVars,
                    scene_annotations, kfVars, auxVars, rejected, all_failed >>

\* save_results: one overlay frame and one mask frame per source frame
SaveResults ==
    /\ pc = "save"
    /\ out_frames' = frame_count
    /\ mask_out_frames' = frame_count
    /\ pc' = "cleanup"
    /\ UNCHANGED << storeVars, inputVars, ret, seg_i, keyframes, sub_i, kf_start,
                    kf_end, pass_idx, out_frame_idx, segVars, temp_dir,
                    scene_annotations, origin, kfVars, auxVars, fbVars, faults, histVars >>

\* shutil.rmtree(temp_frames_dir); return True
Cleanup ==
    /\ pc = "cleanup"
    /\ temp_dir' = FALSE
    /\ pc' = "done" /\ ret' = "True"
    /\ UNCHANGED << storeVars, inputVars, seg_i, keyframes, sub_i, kf_start,
                    kf_end, pass_idx, out_frame_idx, segVars, out_frames,
                    mask_out_frames, scene_annotations, origin, kfVars, auxVars, fbVars, faults,
                    histVars >>

Next ==
    \/ Begin
    \/ SegmentStart
    \/ SubSegmentStart
    \/ PassStart
    \/ PrimaryYield
    \/ PrimaryRaise
    \/ CpuSetup
    \/ CpuPassStart
    \/ CpuYield
    \/ CpuRaise
    \/ SaveResults
    \/ Cleanup

Spec == Init /\ [][Next]_vars

Masked(f) == f \in DOMAIN video_segments /\ current_obj_id \in DOMAIN video_segments[f]

AllFrames == 0..(frame_count - 1)

\* the error is the out-of-memory signal: a RuntimeError whose message holds
\* "out of memory"
OomSignal(e) == e.cls = "RuntimeError" /\ e.oom

(***************************************************************************)
(* C1: after process_video_with_keypoints has run to completion, every     *)
(* frame of the video holds a mask of the tracked object, unless no frame  *)
(* holds one.  Stated for the runs the keyframe selectors give rise to:    *)
(* frame 0 is a keyframe and there is at least one propagation pass.       *)
(***************************************************************************)
C1_EveryFrameMasked ==
    (pc = "done" /\ ret = "True" /\ 0 \in keypoints_dict /\ propagation_steps >= 1) =>
        \/ \A f \in AllFrames : Masked(f)
        \/ \A f \in AllFrames : ~Masked(f)

(***************************************************************************)
(* C7: a call of _fallback_processing that finds neither a 'before' nor an *)
(* 'after' reference leaves the mask store unchanged, prints a warning for *)
(* each unmasked frame of the range and raises nothing: the run goes on    *)
(* with the next segment.                                                  *)
(***************************************************************************)
C7_NoReferenceLeavesGap ==
    [][ ( /\ fb_calls' = fb_calls + 1
          /\ \A f \in 0..(kf_start - 1) : ~Masked(f)
          /\ \A f \in kf_end..(frame_count - 1) : ~Masked(f) )
        => ( /\ video_segments' = video_segments
             /\ warnings' = warnings \cup { f \in kf_start..(kf_end - 1) : ~Masked(f) }
             /\ pc' = "sub_loop" /\ sub_i' = sub_i + 1
             /\ seg_i' = seg_i /\ ret' = ret ) ]_vars

\* a run that warned about a gap and still saved its results and returned
C7_Witness ==
    /\ pc = "done" /\ ret = "True"
    /\ out_frames = frame_count
    /\ fb_calls >= 1 /\ fb_mid = fb_pre
    /\ warnings # {}
    /\ \E f \in warnings : ~Masked(f)

(***************************************************************************)
(* C8: within a segment the CPU Oracle context is constructed if and only  *)
(* if the primary Oracle raised the out-of-memory signal; any other error  *)
(* of the primary Oracle triggers neither the CPU retry nor the            *)
(* interpolation fallback.                                                 *)
(***************************************************************************)
C8_CpuRetryOnlyOnOom ==
    /\ (pc = "cpu_retry" \/ cpu_built) <=> OomSignal(err)
    /\ pc \in {"cpu_pass_loop", "cpu_iter"} => cpu_built
    /\ (cpu_failed \/ seg_fb) => OomSignal(err)

\* the CPU context propagating after an out-of-memory signal
C8_Witness ==
    /\ pc = "cpu_iter" /\ cpu_built
    /\ err = [cls |-> "RuntimeError", oom |-> TRUE]
    /\ out_frame_idx > kf_start

C10_FallbackIffRetryFailed ==
    /\ seg_fb <=> (OomSignal(err) /\ cpu_built /\ cpu_failed)
    /\ cpu_failed => seg_fb
    /\ seg_fb => (fb_calls >= 1 /\ fb_start = kf_start /\ fb_end = kf_end)

\* the fallback entered for a segment that is not the first of the video
C10_Witness ==
    /\ seg_fb /\ cpu_failed
    /\ kf_start > 0 /\ kf_end - kf_start >= 2
    /\ fb_start = kf_start /\ fb_end = kf_end

(***************************************************************************)
(* SpecScn: the run of a 30-frame video with keyframe_interval 10 and      *)
(* annotated frames 0, 10, 20 and 29 against an Oracle that accepts the    *)
(* points of every keyframe and raises out of memory only while the        *)
(* segment starting at frame 10 is propagated.                             *)
(***************************************************************************)
InitScn ==
    /\ frame_count = 30
    /\ keypoints_dict = {0, 10, 20, 29}
    /\ keyframe_interval = 10
    /\ propagation_steps \in 1..MaxSteps
    /\ oracle_mask \in Masks
    /\ video_segments = << >>
    /\ scene_annotations = {}
    /\ warnings = {}
    /\ pc = "start" /\ ret = "running"
    /\ seg_i = 0 /\ keyframes = << >> /\ sub_i = 0
    /\ kf_start = 0 /\ kf_end = 0 /\ pass_idx = 0 /\ out_frame_idx = 0
    /\ origin = << >>
    /\ err = NoErr /\ cpu_built = FALSE /\ cpu_failed = FALSE /\ seg_fb = FALSE
    /\ cpu_primed = -1
    /\ temp_dir = FALSE /\ out_frames = 0 /\ mask_out_frames = 0
    /\ faults = 0
    /\ rejected = {} /\ all_failed = TRUE /\ fb_frames = {}
    /\ FbIdle /\ KfIdle /\ MainIdle /\ SaveIdle /\ ExtIdle

\* add_points returns a mask for the first annotated frame
ScnBegin == Begin /\ rejected' = rejected

\* add_points returns a mask for every later keyframe
ScnSegmentStart == SegmentStart /\ rejected' = rejected

\* the primary Oracle raises out of memory, in the segment starting at 10
ScnOom == PrimaryRaise /\ kf_start = 10 /\ OomSignal(err')

\* the CPU predictor is built and its state initialised without an error
ScnCpuSetup == CpuSetup /\ faults' = faults

NextScn ==
    \/ ScnBegin
    \/ ScnSegmentStart
    \/ SubSegmentStart
    \/ PassStart
    \/ PrimaryYield
    \/ ScnOom
    \/ ScnCpuSetup
    \/ CpuPassStart
    \/ CpuYield
    \/ SaveResults
    \/ Cleanup

SpecScn == InitScn /\ [][NextScn]_vars

(***************************************************************************)
(* C11: in the 30-frame run with keyframe_interval 10, annotated frames 0, *)
(* 10, 20, 29 and an out-of-memory error raised only while the segment     *)
(* starting at frame 10 is propagated, the run returns True; frames 0..9   *)
(* and 20..29 hold masks written by priming or by the primary propagation, *)
(* frames 10..19 hold masks written by the CPU retry and none of them was  *)
(* interpolated, and save_results has written 30 frames to each of the two *)
(* output videos.                                                          *)
(***************************************************************************)
C11_OomSegmentRetriedOnCpu ==
    (pc = "done" /\ faults = 1) =>
        /\ ret = "True"
        /\ \A f \in (0..9) \cup (20..29) :
              Masked(f) /\ origin[f].by \in {"prime", "primary"}
        /\ \A f \in 10..19 :
              /\ Masked(f) /\ origin[f].by = "cpu"
              /\ video_segments[f][current_obj_id] = oracle_mask
        /\ fb_calls = 0 /\ warnings = {}
        /\ out_frames = 30 /\ mask_out_frames = 30

\* the run finished after one out-of-memory error in the segment at frame 10
C11_Witness ==
    /\ pc = "done" /\ ret = "True" /\ faults = 1
    /\ origin[10].by = "cpu" /\ origin[19].by = "cpu"
    /\ origin[29].by = "prime"
    /\ out_frames = 30

(***************************************************************************)
(* SpecMain: the script run as a program, main() under the __main__ guard. *)
(* process_video_with_keypoints is taken by its outcomes: it returns True  *)
(* after save_results, returns None before it, or raises.                  *)
(***************************************************************************)
\* "except Exception as e" of the __main__ guard
GuardCatches(cls) == cls = "Exception"

\* the interpreter exits with 0 when the script runs to its end, with 1 when
\* an exception leaves it
ExitStatus(cls) == IF cls # "none" /\ ~GuardCatches(cls) THEN 1 ELSE 0

InitMain ==
    /\ video_exists \in BOOLEAN /\ checkpoint_exists \in BOOLEAN
    /\ config_exists \in BOOLEAN
    /\ can_load \in BOOLEAN /\ can_open \in BOOLEAN
    /\ auto_keys \in SUBSET (0..(MaxKeys - 1))
    /\ m_pc = "check_video" /\ messages = {} /\ output_dirs = FALSE
    /\ process_called = FALSE /\ results_saved = FALSE
    /\ raised = "none" /\ exit_status = -1
    /\ StoreIdle /\ FbIdle /\ KfIdle /\ RunIdle /\ SaveIdle /\ ExtIdle

\* if not os.path.exists(video_path): print, return
CheckVideo ==
    /\ m_pc = "check_video"
    /\ IF video_exists
       THEN m_pc' = "check_checkpoint" /\ UNCHANGED messages
       ELSE m_pc' = "returned" /\ messages' = messages \cup {"Error: Video file"}
    /\ UNCHANGED << video_exists, checkpoint_exists, config_exists, can_load,
                    can_open, auto_keys, output_dirs, process_called, results_saved,
                    raised, exit_status, kfVars, storeVars, fbVars, runVars, saveVars, extVars >>

\* if not os.path.exists(checkpoint_path): print, return
CheckCheckpoint ==
    /\ m_pc = "check_checkpoint"
    /\ IF checkpoint_exists
       THEN m_pc' = "check_config" /\ UNCHANGED messages
       ELSE m_pc' = "returned"
            /\ messages' = messages \cup {"Error: Checkpoint file"}
    /\ UNCHANGED << video_exists, checkpoint_exists, config_exists, can_load,
                    can_open, auto_keys, output_dirs, process_called, results_saved,
                    raised, exit_status, kfVars, storeVars, fbVars, runVars, saveVars, extVars >>

\* if not os.path.exists(config_path): print, return
CheckConfig ==
    /\ m_pc = "check_config"
    /\ IF config_exists
       THEN m_pc' = "construct" /\ UNCHANGED messages
       ELSE m_pc' = "returned" /\ messages' = messages \cup {"Error: Config file"}
    /\ UNCHANGED << video_exists, checkpoint_exists, config_exists, can_load,
                    can_open, auto_keys, output_dirs, process_called, results_saved,
                    raised, exit_status, kfVars, storeVars, fbVars, runVars, saveVars, extVars >>

\* VideoProcessor(...): output directories made, model loaded, video opened;
\* initialize_model re-raises what the loader raises, an unopened video
\* raises ValueError
Construct ==
    /\ m_pc = "construct"
    /\ output_dirs' = TRUE
    /\ IF can_load /\ can_open
       THEN m_pc' = "keypoints" /\ UNCHANGED raised
       ELSE m_pc' = "raised" /\ raised' = "Exception"
    /\ UNCHANGED << video_exists, checkpoint_exists, config_exists, can_load,
                    can_open, auto_keys, messages, process_called, results_saved,
                    exit_status, kfVars, storeVars, fbVars, runVars, saveVars, extVars >>

\* keypoints_dict = auto_keypoints(...), then "if keypoints_dict:"
ProcessOrRefuse ==
    /\ m_pc = "keypoints"
    /\ IF auto_keys # {}
       THEN /\ process_called' = TRUE
            /\ \E outcome \in {"True", "None", "raise"} :
                 /\ results_saved' = (outcome = "True")
                 /\ IF outcome = "raise"
                    THEN /\ m_pc' = "raised" /\ raised' = "Exception"
                         /\ messages' = messages \cup {"Starting video processing"}
                    ELSE /\ m_pc' = "returned" /\ UNCHANGED raised
                         /\ messages' = messages \cup {"Starting video processing",
                                                       "Video processing complete"}
       ELSE /\ m_pc' = "returned"
            /\ messages' = messages \cup {"No keypoints available"}
            /\ UNCHANGED << process_called, results_saved, raised >>
    /\ UNCHANGED << video_exists, checkpoint_exists, config_exists, can_load,
                    can_open, auto_keys, output_dirs, exit_status,
                    kfVars, storeVars, fbVars, runVars, saveVars, extVars >>

\* the __main__ guard: main() has returned, or its exception is caught and
\* printed; the script ends
Exit ==
    /\ m_pc \in {"returned", "raised"}
    /\ m_pc' = "exited"
    /\ messages' = IF raised # "none" /\ GuardCatches(raised)
                   THEN messages \cup {"Error during processing"} ELSE messages
    /\ exit_status' = ExitStatus(raised)
    /\ UNCHANGED << video_exists, checkpoint_exists, config_exists, can_load,
                    can_open, auto_keys, output_dirs, process_called, results_saved,
                    raised, kfVars, storeVars, fbVars, runVars, saveVars, extVars >>

NextMain ==
    \/ CheckVideo
    \/ CheckCheckpoint
    \/ CheckConfig
    \/ Construct
    \/ ProcessOrRefuse
    \/ Exit

SpecMain == InitMain /\ [][NextMain]_vars

\* every input of main is present and usable
InputsUsable ==
    video_exists /\ checkpoint_exists /\ config_exists /\ can_load /\ can_open

(***************************************************************************)
(* C13: when the keyframe set is empty the run reports that there are no   *)
(* keyframes, save_results is never invoked, so no output video is         *)
(* written, and the process exits with a non-zero status.                  *)
(***************************************************************************)
C13_NoKeyframesExitsNonZero ==
    (m_pc = "exited" /\ InputsUsable /\ auto_keys = {}) =>
        /\ "No keypoints available" \in messages
        /\ ~results_saved
        /\ exit_status # 0

(***************************************************************************)
(* C14: when the input video, the checkpoint or the config file is missing *)
(* or unreadable, the failure is reported, nothing is processed, nothing   *)
(* is saved and the process exits with a non-zero status; after a fully    *)
(* successful run the exit status is 0.                                    *)
(***************************************************************************)
C14_UnusableInputExitsNonZero ==
    m_pc = "exited" =>
        /\ ~InputsUsable =>
              /\ messages # {}
              /\ ~process_called /\ ~results_saved
              /\ exit_status # 0
        /\ (InputsUsable /\ results_saved) => exit_status = 0

(***************************************************************************)
(* Claims about one run of process_video_with_keypoints, continued.        *)
(***************************************************************************)
\* the frames of the segment that starts at annotated frame c: up to the next
\* annotated frame, or to the end of the video
SegmentOf(c) ==
    LET later == { k \in keypoints_dict : k > c }
        next_frame == IF later = {} THEN frame_count
                      ELSE CHOOSE k \in later : \A j \in later : k <= j
    IN  c..(next_frame - 1)

(***************************************************************************)
(* C12: in a completed run in which every primary propagation raised out   *)
(* of memory and every CPU retry failed, each frame of each such segment   *)
(* holds a mask (filled by _fallback_processing where it had none), and    *)
(* the run has saved its results and returned True.                        *)
(***************************************************************************)
C12_FailedSegmentsInterpolated ==
    (pc = "done" /\ propagation_steps >= 1 /\ all_failed /\ fb_calls >= 1) =>
        /\ ret = "True"
        /\ out_frames = frame_count /\ mask_out_frames = frame_count
        /\ \A f \in fb_frames : Masked(f)

(***************************************************************************)
(* C15: in a completed run without Oracle errors, the frames of a segment  *)
(* whose (non-first) keyframe the Oracle rejected still hold masks,        *)
(* carried forward from the masks propagated before it.                    *)
(***************************************************************************)
C15_RejectedSegmentStillMasked ==
    (pc = "done" /\ ret = "True" /\ propagation_steps >= 1 /\ faults = 0) =>
        \A c \in rejected : \A f \in SegmentOf(c) : Masked(f)

(***************************************************************************)
(* C18: once the handler of an out-of-memory error has passed its set-up,  *)
(* if some frame at or before kf_start holds an annotation record then     *)
(* either the CPU context was re-primed with the most recent such record   *)
(* and propagated, or _fallback_processing ran for the segment.            *)
(***************************************************************************)
C18_OomEndsInRetryOrFallback ==
    LET recs == { a \in scene_annotations : a <= kf_start }
    IN  (cpu_built /\ recs # {}) =>
            \/ cpu_primed = CHOOSE a \in recs : \A b \in recs : b <= a
            \/ seg_fb

C20_PassesAndLastWriteWins ==
    (pc = "sub_loop" /\ err = NoErr /\ kf_end > kf_start) =>
        /\ pass_idx = propagation_steps
        /\ \A f \in kf_start..(kf_end - 1) :
              IF propagation_steps = 0
              THEN Masked(f) => origin[f].by = "prime"
              ELSE /\ Masked(f)
                   /\ origin[f] = [by |-> "primary", pass |-> propagation_steps - 1]
                   /\ video_segments[f][current_obj_id] = oracle_mask

\* a segment of several frames propagated in two passes, the second pass
\* having overwritten the first
C20_Witness ==
    /\ pc = "sub_loop" /\ err = NoErr
    /\ propagation_steps = 2 /\ pass_idx = 2
    /\ kf_end - kf_start >= 2
    /\ \A f \in kf_start..(kf_end - 1) : origin[f].pass = 1

\* a segment left as it was by a run without propagation passes
C20_WitnessNoPass ==
    /\ pc = "sub_loop" /\ err = NoErr
    /\ propagation_steps = 0 /\ kf_end - kf_start >= 2
    /\ ~Masked(kf_end - 1)

(***************************************************************************)
(* SpecSave: VideoProcessor.save_results, frame by frame, on a store whose *)
(* masks are two-dimensional arrays of any shape.                          *)
(***************************************************************************)
\* the positions of an array of shape (h, w)
Grid(h, w) == (0..(h - 1)) \X (0..(w - 1))

\* every boolean array of shape (h, w) with h, w <= maxdim
Masks2D(maxdim) ==
    UNION { [h : {hh}, w : {ww}, px : [Grid(hh, ww) -> BOOLEAN]] :
              hh \in 1..maxdim, ww \in 1..maxdim }

\* variant: resized_mask = np.ones((self.height, self.width), dtype=bool)
ResizeMaskOnes(mask, H, W) ==
    IF << mask.h, mask.w >> # << H, W >>
    THEN LET h == Min2(H, mask.h)
             w == Min2(W, mask.w)
         IN  [h |-> H, w |-> W,
              px |-> [p \in Grid(H, W) |->
                        IF p[1] < h /\ p[2] < w THEN mask.px[p] ELSE TRUE]]
    ELSE mask

\* "Ensure mask has correct dimensions": zeros of the frame's shape, then
\* resized_mask[:h, :w] = mask[:h, :w]
ResizeMask(mask, H, W) ==
    IF << mask.h, mask.w >> # << H, W >>
    THEN LET h == Min2(H, mask.h)
             w == Min2(W, mask.w)
         IN  [h |-> H, w |-> W,
              px |-> [p \in Grid(H, W) |->
                        IF p[1] < h /\ p[2] < w THEN mask.px[p] ELSE FALSE]]
    ELSE mask

\* np.where(mask, ...) and mask_frame[mask] need a mask of the frame's shape
FitsFrame(mask, H, W) == mask.h = H /\ mask.w = W

TruePixels(mask) == { p \in DOMAIN mask.px : mask.px[p] }

\* the overlay frame: the source frame, tinted where the mask is True
Overlay(vs, f, H, W) ==
    [idx |-> f,
     tint |-> IF HasMask(vs, f)
              THEN TruePixels(ResizeMask(vs[f][current_obj_id], H, W)) ELSE {}]

\* the mask frame: black, white where the mask is True
MaskFrame(vs, f, H, W) ==
    [idx |-> f,
     white |-> IF HasMask(vs, f)
               THEN TruePixels(ResizeMask(vs[f][current_obj_id], H, W)) ELSE {}]

\* variant: mask_out.write(mask_frame) sits inside the mask branch
WriteMaskIfStored(seq, vs, f, H, W) ==
    IF HasMask(vs, f) THEN Append(seq, MaskFrame(vs, f, H, W)) ELSE seq

\* mask_out.write(mask_frame)
WriteMask(seq, vs, f, H, W) == Append(seq, MaskFrame(vs, f, H, W))

InitSave ==
    /\ frame_count \in 1..MaxSaveFrames
    /\ height \in 1..MaxDim /\ width \in 1..MaxDim
    /\ \E F \in SUBSET (0..(frame_count - 1)) : \E m \in Masks2D(MaxDim) :
          video_segments = [f \in F |-> [o \in {current_obj_id} |-> m]]
    /\ store0 = video_segments
    /\ warnings = {}
    /\ sv_pc = "loop" /\ frame_idx = 0
    /\ out = << >> /\ mask_out = << >>
    /\ FbIdle /\ KfIdle /\ RunIdle /\ MainIdle /\ ExtIdle

\* one iteration of "while True": a frame is read, its overlay and its mask
\* frame are built and written
SaveFrame ==
    /\ sv_pc = "loop"
    /\ frame_idx < frame_count
    /\ IF HasMask(video_segments, frame_idx)
          /\ ~FitsFrame(ResizeMask(video_segments[frame_idx][current_obj_id],
                                   height, width), height, width)
       THEN /\ sv_pc' = "failed"
            /\ UNCHANGED << frame_idx, out, mask_out >>
       ELSE /\ out' = Append(out, Overlay(video_segments, frame_idx, height, width))
            /\ mask_out' = WriteMask(mask_out, video_segments, frame_idx, height,
                                     width)
            /\ frame_idx' = frame_idx + 1
            /\ UNCHANGED sv_pc
    /\ UNCHANGED << height, width, store0, kfVars, storeVars, fbVars, runVars,
                    mainVars, extVars >>

\* cap.read() fails after the last frame: break, release the writers
SaveRelease ==
    /\ sv_pc = "loop"
    /\ frame_idx >= frame_count
    /\ sv_pc' = "released"
    /\ UNCHANGED << height, width, frame_idx, out, mask_out, store0, kfVars,
                    storeVars, fbVars, runVars, mainVars, extVars >>

NextSave ==
    \/ SaveFrame
    \/ SaveRelease

SpecSave == InitSave /\ [][NextSave]_vars

(***************************************************************************)
(* C16: save_results appends one overlay frame and one mask frame for each *)
(* source frame, in increasing index order, whether or not the frame has a *)
(* stored mask: at every moment both streams hold the frames 0 .. k-1 of   *)
(* the k frames read so far, and when the writers are released both hold   *)
(* frame_count frames.                                                     *)
(***************************************************************************)
C16_OneFramePerSourceFrame ==
    /\ Len(out) = frame_idx /\ Len(mask_out) = frame_idx
    /\ \A i \in 1..Len(out) : out[i].idx = i - 1
    /\ \A i \in 1..Len(mask_out) : mask_out[i].idx = i - 1
    /\ sv_pc = "released" =>
          Len(out) = frame_count /\ Len(mask_out) = frame_count

\* both videos written for a video with a masked and an unmasked frame
C16_Witness ==
    /\ sv_pc = "released" /\ frame_count >= 2
    /\ Len(out) = frame_count /\ Len(mask_out) = frame_count
    /\ \E f \in 0..(frame_count - 1) : HasMask(video_segments, f)
    /\ \E f \in 0..(frame_count - 1) : ~HasMask(video_segments, f)

(***************************************************************************)
(* C17: whatever the shape of a stored mask, save_results does not fail;   *)
(* the mask it renders has the frame's shape, equals the stored mask on    *)
(* the top-left region [0, min(h, H)) x [0, min(w, W)) and is False        *)
(* elsewhere, and the stored mask is left as it was.                       *)
(***************************************************************************)
C17_MaskCroppedAndPadded ==
    /\ sv_pc # "failed"
    /\ video_segments = store0
    /\ \A i \in 1..Len(mask_out) :
          LET f == i - 1
          IN  IF HasMask(store0, f)
              THEN LET stored == store0[f][current_obj_id]
                       used == { p \in Grid(height, width) :
                                   /\ p[1] < Min2(height, stored.h)
                                   /\ p[2] < Min2(width, stored.w)
                                   /\ stored.px[p] }
                   IN  mask_out[i].white = used /\ out[i].tint = used
              ELSE mask_out[i].white = {} /\ out[i].tint = {}

\* a stored mask taller and narrower than the frame, True everywhere, has
\* been rendered: cropped below, padded on the right
C17_Witness ==
    /\ sv_pc = "released"
    /\ \E f \in 0..(frame_count - 1) :
          /\ HasMask(store0, f)
          /\ store0[f][current_obj_id].h > height
          /\ store0[f][current_obj_id].w < width
          /\ \A p \in DOMAIN store0[f][current_obj_id].px :
                store0[f][current_obj_id].px[p]
          /\ mask_out[f + 1].white # {}
          /\ mask_out[f + 1].white # Grid(height, width)

(***************************************************************************)
(* C21: when the primary or the CPU Oracle yields frame f while segment    *)
(* [kf_start, kf_end) is propagated, the yielded mask is stored for f if   *)
(* kf_start <= f < kf_end and the store is left as it was otherwise; the   *)
(* entries of all other frames are unchanged; and the pass ends at the     *)
(* first yielded index >= kf_end - 1, or when the sequence ends, and goes  *)
(* on to the next index otherwise.                                         *)
(***************************************************************************)
C21_RecordInsideSegmentOnly ==
    [][ (pc \in {"primary_iter", "cpu_iter"} /\ faults' = faults) =>
        LET f == out_frame_idx
        IN  /\ IF kf_start <= f /\ f < kf_end
               THEN /\ f \in DOMAIN video_segments'
                    /\ current_obj_id \in DOMAIN video_segments'[f]
                    /\ video_segments'[f][current_obj_id] = oracle_mask
               ELSE video_segments' = video_segments
            /\ \A g \in AllFrames \ {f} :
                  /\ g \in DOMAIN video_segments' <=> g \in DOMAIN video_segments
                  /\ g \in DOMAIN video_segments =>
                        video_segments'[g] = video_segments[g]
            /\ IF f >= kf_end - 1 \/ f + 1 >= frame_count
               THEN /\ pass_idx' = pass_idx + 1
                    /\ pc' = IF pc = "primary_iter" THEN "pass_loop"
                             ELSE "cpu_pass_loop"
               ELSE /\ out_frame_idx' = f + 1
                    /\ pc' = pc /\ pass_idx' = pass_idx ]_vars

\* the primary Oracle has yielded, below the running segment, a frame that
\* holds no mask, and the frame still holds none
C21_Witness ==
    /\ pc = "primary_iter"
    /\ out_frame_idx <= kf_start
    /\ \E g \in AllFrames :
          /\ OracleFirstFrame <= g /\ g < out_frame_idx
          /\ ~Masked(g)

(***************************************************************************)
(* SpecRange: one call propagate_in_video(start_idx, end_idx), followed    *)
(* through the iterations of its loop over the keyframes.  Each iteration  *)
(* is taken with a pass that yields every frame of the video, so that the  *)
(* frames it records are those of [kf_start, kf_end).                      *)
(***************************************************************************)
MaxRgFrames == 7

MaxRgInterval == 4

InitRange ==
    /\ rg_start \in 0..(MaxRgFrames - 1)
    /\ rg_end \in (rg_start + 1)..MaxRgFrames
    /\ rg_interval \in 1..MaxRgInterval
    /\ rg_keyframes = << >> /\ rg_i = 0 /\ rg_pc = "call"
    /\ rg_visited = << >> /\ rg_writes = << >>
    /\ StoreIdle /\ FbIdle /\ KfIdle /\ RunIdle /\ MainIdle /\ SaveIdle
    /\ PtIdle /\ SsIdle /\ ApIdle

\* the keyframes list is built
RgKeyframes ==
    /\ rg_pc = "call"
    /\ rg_keyframes' = PropKeyframes(rg_start, rg_end, rg_interval)
    /\ rg_i' = 1
    /\ rg_writes' = [f \in 0..rg_end |-> 0]
    /\ rg_pc' = "loop"
    /\ UNCHANGED << rg_start, rg_end, rg_interval, rg_visited >>
    /\ UNCHANGED << coreVars, ptVars, ssVars, apVars >>

\* one iteration of the loop over the keyframes, or its end
RgSubSegment ==
    /\ rg_pc = "loop"
    /\ IF rg_i > Len(rg_keyframes) - 1
       THEN /\ rg_pc' = "done"
            /\ UNCHANGED << rg_i, rg_visited, rg_writes >>
       ELSE LET seg == SubSegment(rg_keyframes, rg_i)
            IN  /\ rg_visited' = Append(rg_visited, seg)
                /\ rg_writes' =
                      [f \in DOMAIN rg_writes |->
                          IF seg.kf_start <= f /\ f < seg.kf_end
                          THEN rg_writes[f] + 1 ELSE rg_writes[f]]
                /\ rg_i' = rg_i + 1
                /\ rg_pc' = "loop"
    /\ UNCHANGED << rg_start, rg_end, rg_interval, rg_keyframes >>
    /\ UNCHANGED << coreVars, ptVars, ssVars, apVars >>

NextRange ==
    \/ RgKeyframes
    \/ RgSubSegment

SpecRange == InitRange /\ [][NextRange]_vars

\* the frames of a sub-segment
SegFrames(seg) == { f \in 0..MaxRgFrames + 1 : seg.kf_start <= f /\ f < seg.kf_end }

RgFrames == rg_start..(rg_end - 1)

(***************************************************************************)
(* C22 as stated: the sub-segments propagate_in_video processes are        *)
(* pairwise disjoint, every frame of [start_idx, end_idx) lies in exactly  *)
(* one of them, and no frame is recorded by two of them.                   *)
(***************************************************************************)
C22_SubSegmentsPartition ==
    rg_pc = "done" =>
        /\ \A i, j \in 1..Len(rg_visited) :
              i < j => SegFrames(rg_visited[i]) \cap SegFrames(rg_visited[j]) = {}
        /\ \A f \in RgFrames :
              Cardinality({ i \in 1..Len(rg_visited) : f \in SegFrames(rg_visited[i]) }) = 1
        /\ \A f \in RgFrames : rg_writes[f] <= 1

(***************************************************************************)
(* C22 amended: sub-segment i is the closed range [k_i, k_(i+1)] of        *)
(* consecutive keyframes.  Two consecutive sub-segments share exactly      *)
(* their boundary keyframe and no other two share a frame; a keyframe      *)
(* strictly inside the range is recorded by the two sub-segments it        *)
(* bounds, and every other frame of a range of two frames or more by       *)
(* exactly one.                                                            *)
(***************************************************************************)
C22_SubSegmentsShareBoundary ==
    rg_pc = "done" =>
        LET n == Len(rg_visited)
            inner == { rg_keyframes[i] : i \in 2..n }
        IN  /\ n = Len(rg_keyframes) - 1
            /\ \A i \in 1..n :
                  SegFrames(rg_visited[i]) = rg_keyframes[i]..rg_keyframes[i + 1]
            /\ \A i, j \in 1..n :
                  i < j =>
                     SegFrames(rg_visited[i]) \cap SegFrames(rg_visited[j]) =
                        IF j = i + 1 THEN { rg_keyframes[j] } ELSE {}
            /\ \A f \in DOMAIN rg_writes :
                  rg_writes[f] = IF n = 0 \/ f \notin RgFrames THEN 0
                                 ELSE IF f \in inner THEN 2 ELSE 1

\* a range of three sub-segments or more was processed: an inner keyframe
\* was recorded twice
C22_Witness ==
    /\ rg_pc = "done"
    /\ Len(rg_visited) >= 3
    /\ \E f \in RgFrames : rg_writes[f] = 2
    /\ \E f \in RgFrames : rg_writes[f] = 1

(***************************************************************************)
(* C30 as stated: for keyframe_interval >= 1 and start_idx < end_idx the   *)
(* sub-segments start at start_idx, end at end_idx - 1, are visited in     *)
(* strictly increasing order, span at most keyframe_interval + 1 frames    *)
(* each, and together hold every frame of [start_idx, end_idx), the        *)
(* single-frame range included.                                            *)
(***************************************************************************)
SubSegmentsCover ==
    LET n == Len(rg_visited)
    IN  /\ n >= 1
        /\ rg_visited[1].kf_start = rg_start
        /\ rg_visited[n].kf_end - 1 = rg_end - 1
        /\ \A i \in 1..(n - 1) :
              /\ rg_visited[i].kf_start < rg_visited[i + 1].kf_start
              /\ rg_visited[i].kf_end < rg_visited[i + 1].kf_end
        /\ \A i \in 1..n :
              /\ rg_visited[i].kf_start < rg_visited[i].kf_end
              /\ rg_visited[i].kf_end - rg_visited[i].kf_start <= rg_interval + 1
        /\ UNION { SegFrames(rg_visited[i]) : i \in 1..n } = RgFrames

C30_SubSegmentsCoverRange ==
    (rg_pc = "done" /\ rg_interval >= 1 /\ rg_start < rg_end) => SubSegmentsCover

(***************************************************************************)
(* C30 amended: for a range of two frames or more the sub-segments start   *)
(* at start_idx, end at end_idx - 1, are visited in strictly increasing    *)
(* order, span at most keyframe_interval + 1 frames each and together hold *)
(* every frame of the range; for a single-frame range the loop has no      *)
(* iteration and no frame is recorded.                                     *)
(***************************************************************************)
C30_SubSegmentsCoverLongRange ==
    (rg_pc = "done" /\ rg_interval >= 1) =>
        IF rg_end >= rg_start + 2
        THEN SubSegmentsCover
        ELSE /\ rg_visited = << >>
             /\ \A f \in DOMAIN rg_writes : rg_writes[f] = 0

\* a range that does not start at frame 0, whose last sub-segment is shorter
\* than the others
C30_Witness ==
    /\ rg_pc = "done"
    /\ rg_start > 0
    /\ Len(rg_visited) >= 2
    /\ rg_visited[1].kf_end - rg_visited[1].kf_start = rg_interval + 1
    /\ rg_visited[Len(rg_visited)].kf_end - rg_visited[Len(rg_visited)].kf_start
          < rg_interval + 1

(***************************************************************************)
(* C23: in _fallback_processing(start_idx, end_idx) 'before' is the        *)
(* greatest frame below start_idx that holds a mask of the tracked object  *)
(* and 'after' the least frame of [end_idx, frame_count) that holds one,   *)
(* each absent exactly when there is no such frame; both are read off the  *)
(* store as it was before the call, and every frame the call fills is      *)
(* filled from these two references.                                       *)
(***************************************************************************)
FbRefBefore == IF FbBelow = {} THEN -1 ELSE FbBefore

FbRefAfter == IF FbAbove = {} THEN -1 ELSE FbAfter

C23_ReferencesDeterminedOnce ==
    fb_calls >= 1 =>
        /\ BeforeFrame(fb_pre, fb_start) = FbRefBefore
        /\ AfterFrame(fb_pre, fb_end, frame_count) = FbRefAfter
        /\ (BeforeFrame(fb_pre, fb_start) = -1) <=> (FbBelow = {})
        /\ (AfterFrame(fb_pre, fb_end, frame_count) = -1) <=> (FbAbove = {})
        /\ \A f \in FbGap :
              IF FbRefBefore # -1 /\ FbRefAfter # -1
              THEN /\ HasMask(fb_mid, f)
                   /\ fb_mid[f][current_obj_id] =
                         InterpMask(fb_pre[FbRefBefore][current_obj_id],
                                    fb_pre[FbRefAfter][current_obj_id],
                                    f - FbRefBefore, FbRefAfter - FbRefBefore)
              ELSE IF FbRefBefore # -1
              THEN /\ HasMask(fb_mid, f)
                   /\ fb_mid[f][current_obj_id] = fb_pre[FbRefBefore][current_obj_id]
              ELSE IF FbRefAfter # -1
              THEN /\ HasMask(fb_mid, f)
                   /\ fb_mid[f][current_obj_id] = fb_pre[FbRefAfter][current_obj_id]
              ELSE ~HasMask(fb_mid, f)

\* two frames below the range hold different masks and a frame above holds
\* one: the frame of the gap was filled from the nearer of the two
C23_Witness ==
    /\ fb_calls >= 1
    /\ FbAbove # {} /\ FbGap # {}
    /\ \E f, g \in FbBelow :
          /\ f < g
          /\ fb_pre[f][current_obj_id] # fb_pre[g][current_obj_id]

(***************************************************************************)
(* C24: the annotation points are submitted again at the start of every    *)
(* keyframe sub-segment: while a sub-segment is in its passes, the points  *)
(* of its kf_start have been submitted through add_points.                 *)
(***************************************************************************)
C24_PointsSubmittedPerSubSegment ==
    (pc \in {"pass_loop", "primary_iter", "cpu_pass_loop", "cpu_iter"}) =>
        kf_start \in scene_annotations

(***************************************************************************)
(* C25: save_results starts only when the segment loop has gone through    *)
(* every annotated frame, so after the propagation, CPU retry and          *)
(* interpolation of the last segment; from its start on video_segments is  *)
(* never written again; and the temporary frames directory is removed only *)
(* after save_results has written all frames.                              *)
(***************************************************************************)
C25_SaveAfterLastSegment ==
    [][ /\ (pc # "save" /\ pc' = "save") =>
              /\ pc = "seg_loop"
              /\ seg_i > Len(annotated_frames)
              /\ seg_i' = seg_i
        /\ (pc \in {"save", "cleanup", "done"}) =>
              /\ video_segments' = video_segments
              /\ pc' \in {"save", "cleanup", "done"}
        /\ (out_frames' # out_frames \/ mask_out_frames' # mask_out_frames) =>
              pc = "save"
        /\ (temp_dir /\ ~temp_dir') =>
              /\ pc = "cleanup"
              /\ out_frames = frame_count /\ mask_out_frames = frame_count ]_vars

\* a finished run over two annotated frames or more, whose last segment
\* ended in the interpolation, with the directory removed
C25_Witness ==
    /\ pc = "done" /\ ret = "True"
    /\ ~temp_dir /\ out_frames = frame_count
    /\ Cardinality(keypoints_dict) >= 2
    /\ seg_fb
    /\ kf_end = frame_count

(***************************************************************************)
(* SpecPts: the points auto_keypoints gives to its keyframes.  A contour   *)
(* is known by its area and by the centre of mass its moments give; m00 of *)
(* a contour is its area.  The loop looks at two frames, and finds the     *)
(* same contours in each.                                                  *)
(***************************************************************************)
MaxContours == 6

MaxPtIter == 2

AreaThreshold == 100

MaxRegions == 5

EdgeMargin == 20

Widths == {64, 65}

Heights == {48}

Contours == { [area |-> 100, cx |-> 3, cy |-> 3],
              [area |-> 101, cx |-> 5, cy |-> 7],
              [area |-> 300, cx |-> 9, cy |-> 2] }

ContourLists == UNION { [1..n -> Contours] : n \in 0..MaxContours }

\* the grid of five positive points: the centre and the four quadrants
GridPoints(w, h) ==
    LET center_x == w \div 2
        center_y == h \div 2
    IN  << << center_x, center_y, 1 >>,
           << center_x \div 2, center_y \div 2, 1 >>,
           << center_x + center_x \div 2, center_y \div 2, 1 >>,
           << center_x \div 2, center_y + center_y \div 2, 1 >>,
           << center_x + center_x \div 2, center_y + center_y \div 2, 1 >> >>

\* the four negative points near the corners
EdgePoints(w, h) ==
    << << EdgeMargin, EdgeMargin, 0 >>,
       << w - EdgeMargin, EdgeMargin, 0 >>,
       << EdgeMargin, h - EdgeMargin, 0 >>,
       << w - EdgeMargin, h - EdgeMargin, 0 >> >>

\* cv2.contourArea, and m00 of cv2.moments
ContourArea(c) == c.area

Moment00(c) == c.area

\* sorted(contours, key=cv2.contourArea, reverse=True): stable, so contours
\* of equal area keep their order
RECURSIVE InsertByArea(_, _)
InsertByArea(s, c) ==
    IF s = << >> THEN << c >>
    ELSE IF ContourArea(s[1]) >= ContourArea(c)
         THEN << s[1] >> \o InsertByArea(Tail(s), c)
         ELSE << c >> \o s

RECURSIVE SortByArea(_)
SortByArea(s) ==
    IF s = << >> THEN << >>
    ELSE InsertByArea(SortByArea(SubSeq(s, 1, Len(s) - 1)), s[Len(s)])

\* variant: the threshold is >= 100
AboveThresholdGe(a) == a >= AreaThreshold

\* cv2.contourArea(contours[j]) > 100
AboveThreshold(a) == a > AreaThreshold

\* the loop over j: the positive points at the centres of the largest contours
RECURSIVE CentroidLoop(_, _, _)
CentroidLoop(contours, j, n) ==
    IF j > n THEN << >>
    ELSE (IF AboveThreshold(ContourArea(contours[j])) /\ Moment00(contours[j]) # 0
          THEN << << contours[j].cx, contours[j].cy, 1 >> >>
          ELSE << >>)
         \o CentroidLoop(contours, j + 1, n)

MotionPositives(contours) ==
    LET sorted == SortByArea(contours)
    IN  CentroidLoop(sorted, 1, Min2(MaxRegions, Len(sorted)))

\* the points of a frame of the loop, and where its positives came from
MotionFramePoints(contours, w, h) ==
    LET points == MotionPositives(contours)
    IN  IF points = << >>
        THEN [points |-> GridPoints(w, h) \o EdgePoints(w, h), branch |-> "grid"]
        ELSE [points |-> points \o EdgePoints(w, h), branch |-> "motion"]

InitPts ==
    /\ pt_w \in Widths /\ pt_h \in Heights
    /\ pt_contours \in ContourLists
    /\ pt_first_ok \in BOOLEAN
    /\ pt_nread \in 0..MaxPtIter
    /\ pt_step \in 1..2
    /\ pt_i = 0 /\ pt_pc = "first" /\ pt_prev = FALSE
    /\ pt_points = << >> /\ pt_branch = << >>
    /\ StoreIdle /\ FbIdle /\ KfIdle /\ RunIdle /\ MainIdle /\ SaveIdle
    /\ RgIdle /\ SsIdle /\ ApIdle

\* the first frame is read and, if there is one, given the grid
PtFirstFrame ==
    /\ pt_pc = "first"
    /\ IF pt_first_ok
       THEN /\ pt_points' = (0 :> (GridPoints(pt_w, pt_h) \o EdgePoints(pt_w, pt_h)))
            /\ pt_branch' = (0 :> "grid")
            /\ pt_prev' = TRUE
       ELSE UNCHANGED << pt_points, pt_branch, pt_prev >>
    /\ pt_i' = 1 /\ pt_pc' = "loop"
    /\ UNCHANGED << pt_w, pt_h, pt_contours, pt_first_ok, pt_nread, pt_step >>
    /\ UNCHANGED << coreVars, rgVars, ssVars, apVars >>

\* one iteration of "for i in range(1, num_keypoints)", its break, or its end
PtLoopFrame ==
    /\ pt_pc = "loop"
    /\ IF pt_i > MaxPtIter \/ pt_i > pt_nread
       THEN /\ pt_pc' = "done"
            /\ UNCHANGED << pt_i, pt_points, pt_branch, pt_prev >>
       ELSE LET frame_idx_ == pt_i * pt_step
                r == MotionFramePoints(pt_contours, pt_w, pt_h)
            IN  /\ IF pt_prev
                   THEN /\ pt_points' = (frame_idx_ :> r.points) @@ pt_points
                        /\ pt_branch' = (frame_idx_ :> r.branch) @@ pt_branch
                   ELSE UNCHANGED << pt_points, pt_branch >>
                /\ pt_prev' = TRUE
                /\ pt_i' = pt_i + 1
                /\ pt_pc' = "loop"
    /\ UNCHANGED << pt_w, pt_h, pt_contours, pt_first_ok, pt_nread, pt_step >>
    /\ UNCHANGED << coreVars, rgVars, ssVars, apVars >>

NextPts ==
    \/ PtFirstFrame
    \/ PtLoopFrame

SpecPts == InitPts /\ [][NextPts]_vars

(***************************************************************************)
(* C26: every keyframe of auto_keypoints other than frame 0 holds between  *)
(* one and five positive points followed by exactly the four negative      *)
(* corner points; the positives are the centres of the (at most five)      *)
(* largest contours with area above the threshold, largest first, and are  *)
(* the five-point grid exactly when there is no such contour; frame 0,     *)
(* when read, holds the grid followed by the four corner points.           *)
(***************************************************************************)
\* the contours with area above the threshold, by position in the list
PtBig == { i \in 1..Len(pt_contours) : pt_contours[i].area > AreaThreshold }

\* the place of contour i among those, by area and then by position
PtRank(i) ==
    1 + Cardinality({ j \in PtBig : pt_contours[j].area > pt_contours[i].area })
      + Cardinality({ j \in PtBig : /\ pt_contours[j].area = pt_contours[i].area
                                    /\ j < i })

PtCorners(pts) ==
    /\ Len(pts) >= 4
    /\ SubSeq(pts, Len(pts) - 3, Len(pts)) =
          << << 20, 20, 0 >>, << pt_w - 20, 20, 0 >>, << 20, pt_h - 20, 0 >>,
             << pt_w - 20, pt_h - 20, 0 >> >>

PtIsGrid(pts) ==
    /\ Len(pts) = 9
    /\ pts[1] = << pt_w \div 2, pt_h \div 2, 1 >>
    /\ { << pts[k][1], pts[k][2] >> : k \in 2..5 } =
          { << x, y >> : x \in { pt_w \div 4, pt_w \div 2 + pt_w \div 4 },
                         y \in { pt_h \div 4, pt_h \div 2 + pt_h \div 4 } }
    /\ \A k \in 1..5 : pts[k][3] = 1

C26_KeyframePoints ==
    /\ \A f \in DOMAIN pt_points :
          LET pts == pt_points[f]
              n == Len(pts) - 4
          IN  /\ PtCorners(pts)
              /\ n \in 1..5
              /\ \A k \in 1..n : pts[k][3] = 1
              /\ f # 0 =>
                    IF PtBig = {}
                    THEN PtIsGrid(pts) /\ pt_branch[f] = "grid"
                    ELSE /\ pt_branch[f] = "motion"
                         /\ n = Min2(5, Cardinality(PtBig))
                         /\ \A i \in PtBig :
                               PtRank(i) <= 5 =>
                                  pts[PtRank(i)] =
                                     << pt_contours[i].cx, pt_contours[i].cy, 1 >>
              /\ f = 0 => PtIsGrid(pts) /\ pt_branch[f] = "grid"
    /\ (pt_pc # "first" /\ pt_first_ok) => 0 \in DOMAIN pt_points

\* six contours, one of them at the threshold and one above it left out of
\* the five largest; a frame other than frame 0 holds five centres
C26_Witness ==
    /\ pt_pc = "done"
    /\ Len(pt_contours) = 6
    /\ Cardinality(PtBig) = 5
    /\ pt_contours[1].area = AreaThreshold
    /\ \E f \in DOMAIN pt_points :
          /\ f # 0 /\ Len(pt_points[f]) = 9 /\ pt_branch[f] = "motion"
          /\ pt_points[f][1] # pt_points[f][5]

(***************************************************************************)
(* SpecSimple: simple_segment.process_video over the extracted frames: the *)
(* keyframes of generate_keypoints, the keyframe pass and the              *)
(* interpolation pass.                                                     *)
(***************************************************************************)
MaxSsFrames == 6

MaxSsInterval == 3

DefaultNumKeypoints == 5

\* variant: the last frame is not added to the keyframes
SimpleKeyframesNoLast(total_frames, num_keypoints, interval) ==
    IF interval # 0
    THEN PyRange(0, total_frames, interval)
    ELSE PyRange(0, total_frames, Max2(1, total_frames \div num_keypoints))

\* generate_keypoints: the keys of the dict it returns; an interval of 0 is
\* falsy and selects the evenly distributed keyframes
SimpleKeyframes(total_frames, num_keypoints, interval) ==
    IF interval # 0
    THEN GenerateKeyframes(total_frames, interval)
    ELSE GenerateKeyframes(total_frames, Max2(1, total_frames \div num_keypoints))

\* max([k for k in keypoints.keys() if k < i], default=None); -1 stands for
\* None
PrevKeyframe(keys, i) ==
    LET c == { k \in SeqRange(keys) : k < i }
    IN  IF c = {} THEN -1 ELSE CHOOSE k \in c : \A g \in c : g <= k

\* min([k for k in keypoints.keys() if k > i], default=None)
NextKeyframe(keys, i) ==
    LET c == { k \in SeqRange(keys) : k > i }
    IN  IF c = {} THEN -1 ELSE CHOOSE k \in c : \A g \in c : k <= g

\* (alpha * mask_next + (1 - alpha) * mask_prev) > 0.5 with
\* alpha = (i - prev_kf) / (next_kf - prev_kf), multiplied through by
\* 2 * (next_kf - prev_kf)
SimpleInterp(mask_prev, mask_next, i, prev_kf, next_kf) ==
    [p \in Pixels |->
        2 * ((i - prev_kf) * B2I(mask_next[p]) + (next_kf - i) * B2I(mask_prev[p]))
           > next_kf - prev_kf]

InitSimple ==
    /\ ss_N \in 1..MaxSsFrames
    /\ ss_interval \in 0..MaxSsInterval
    /\ ss_keys = << >> /\ ss_masks = << >>
    /\ ss_pc = "keypoints" /\ ss_i = 0 /\ ss_branches = {}
    /\ StoreIdle /\ FbIdle /\ KfIdle /\ RunIdle /\ MainIdle /\ SaveIdle
    /\ RgIdle /\ PtIdle /\ ApIdle

\* keypoints = generate_keypoints(frames_dir, keyframe_interval=...)
SsGenerateKeypoints ==
    /\ ss_pc = "keypoints"
    /\ ss_keys' = SimpleKeyframes(ss_N, DefaultNumKeypoints, ss_interval)
    /\ ss_i' = 1 /\ ss_pc' = "keyframes"
    /\ UNCHANGED << ss_N, ss_interval, ss_masks, ss_branches >>
    /\ UNCHANGED << coreVars, rgVars, ptVars, apVars >>

\* one iteration of "for idx in keypoints.keys()", or the end of that loop
SsKeyframe ==
    /\ ss_pc = "keyframes"
    /\ IF ss_i > Len(ss_keys)
       THEN /\ ss_pc' = "interpolate" /\ ss_i' = 0
            /\ UNCHANGED ss_masks
       ELSE /\ \E mask \in Masks : ss_masks' = (ss_keys[ss_i] :> mask) @@ ss_masks
            /\ ss_i' = ss_i + 1 /\ ss_pc' = "keyframes"
    /\ UNCHANGED << ss_N, ss_interval, ss_keys, ss_branches >>
    /\ UNCHANGED << coreVars, rgVars, ptVars, apVars >>

\* one iteration of "for i in range(len(frame_files))", or the end of that loop
SsInterpolate ==
    /\ ss_pc = "interpolate"
    /\ IF ss_i >= ss_N
       THEN /\ ss_pc' = "done"
            /\ UNCHANGED << ss_i, ss_masks, ss_branches >>
       ELSE /\ ss_i' = ss_i + 1 /\ ss_pc' = "interpolate"
            /\ IF ss_i \in DOMAIN ss_masks
               THEN UNCHANGED << ss_masks, ss_branches >>
               ELSE LET prev_kf == PrevKeyframe(ss_keys, ss_i)
                        next_kf == NextKeyframe(ss_keys, ss_i)
                    IN  IF prev_kf = -1 /\ next_kf = -1
                        THEN /\ ss_branches' = ss_branches \cup {"none"}
                             /\ UNCHANGED ss_masks
                        ELSE IF prev_kf = -1
                        THEN /\ ss_branches' = ss_branches \cup {"next"}
                             /\ ss_masks' = (ss_i :> ss_masks[next_kf]) @@ ss_masks
                        ELSE IF next_kf = -1
                        THEN /\ ss_branches' = ss_branches \cup {"prev"}
                             /\ ss_masks' = (ss_i :> ss_masks[prev_kf]) @@ ss_masks
                        ELSE /\ ss_branches' = ss_branches \cup {"both"}
                             /\ ss_masks' =
                                   (ss_i :> SimpleInterp(ss_masks[prev_kf],
                                                         ss_masks[next_kf],
                                                         ss_i, prev_kf, next_kf))
                                   @@ ss_masks
    /\ UNCHANGED << ss_N, ss_interval, ss_keys >>
    /\ UNCHANGED << coreVars, rgVars, ptVars, apVars >>

NextSimple ==
    \/ SsGenerateKeypoints
    \/ SsKeyframe
    \/ SsInterpolate

SpecSimple == InitSimple /\ [][NextSimple]_vars

(***************************************************************************)
(* C27: after the keyframe pass and the interpolation pass of              *)
(* simple_segment.process_video every frame of [0, N) holds a mask; every  *)
(* frame that is not a keyframe has a keyframe below it and one above it,  *)
(* so the interpolation is always two-sided: the 'no keyframes available'  *)
(* branch and the one-sided copies are never taken.                        *)
(***************************************************************************)
C27_AllFramesMaskedTwoSided ==
    /\ ss_branches \subseteq {"both"}
    /\ ss_pc \in {"keyframes", "interpolate", "done"} =>
          \A f \in 0..(ss_N - 1) :
              f \notin SeqRange(ss_keys) =>
                 /\ \E k \in SeqRange(ss_keys) : k < f
                 /\ \E k \in SeqRange(ss_keys) : k > f
    /\ ss_pc = "interpolate" => \A f \in 0..(ss_i - 1) : f \in DOMAIN ss_masks
    /\ ss_pc = "done" => DOMAIN ss_masks = 0..(ss_N - 1)

\* a video whose last frame is not a multiple of the interval, with a frame
\* blended from two keyframes that hold different masks
C27_Witness ==
    /\ ss_pc = "done"
    /\ ss_interval >= 2 /\ (ss_N - 1) % ss_interval # 0
    /\ ss_branches = {"both"}
    /\ \E f \in 0..(ss_N - 1) :
          /\ f \notin SeqRange(ss_keys)
          /\ f > ss_keys[Len(ss_keys) - 1]
          /\ ss_masks[ss_keys[Len(ss_keys) - 1]] # ss_masks[ss_N - 1]

(***************************************************************************)
(* SpecAdd: calls of VideoProcessor.add_points on an arbitrary mask store. *)
(* The Oracle call either returns logits the mask is made from, or         *)
(* returns something the mask cannot be made from, or raises.              *)
(***************************************************************************)
MaxApFrames == 3

MaxApCalls == 2

OracleOutcomes == {"mask", "bad_logits", "raise"}

\* variant: the entry of the frame is made before the Oracle is called
AddPointsEntryFirst(vs, f, points_empty, labels_empty, outcome, mask) ==
    IF points_empty \/ labels_empty
    THEN [vs |-> vs, ret |-> NoneRet, called |-> FALSE]
    ELSE LET vs1 == IF f \in DOMAIN vs THEN vs ELSE (f :> << >>) @@ vs
         IN  IF outcome = "mask"
             THEN [vs |-> StoreMask(vs1, f, current_obj_id, mask),
                   ret |-> [none |-> FALSE, mask |-> mask], called |-> TRUE]
             ELSE [vs |-> vs1, ret |-> NoneRet, called |-> TRUE]

\* add_points(frame_idx, points, labels): the store afterwards, what is
\* returned, and whether the Oracle was called
AddPoints(vs, f, points_empty, labels_empty, outcome, mask) ==
    IF points_empty \/ labels_empty
    THEN [vs |-> vs, ret |-> NoneRet, called |-> FALSE]
    ELSE IF outcome = "mask"
         THEN [vs |-> StoreMask(vs, f, current_obj_id, mask),
               ret |-> [none |-> FALSE, mask |-> mask], called |-> TRUE]
         ELSE [vs |-> vs, ret |-> NoneRet, called |-> TRUE]

InitAdd ==
    /\ frame_count \in 1..MaxApFrames
    /\ video_segments \in Stores(frame_count)
    /\ warnings = {}
    /\ FbIdle /\ KfIdle /\ RunIdle /\ MainIdle /\ SaveIdle /\ ExtIdle

CallAddPoints ==
    /\ ap_calls < MaxApCalls
    /\ \E f \in 0..(frame_count - 1) : \E points_empty, labels_empty \in BOOLEAN :
       \E outcome \in OracleOutcomes : \E mask \in Masks :
          LET r == AddPoints(video_segments, f, points_empty, labels_empty, outcome,
                             mask)
          IN  /\ video_segments' = r.vs
              /\ ap_ret' = r.ret
              /\ ap_called' = r.called
              /\ ap_frame' = f
              /\ ap_empty' = (points_empty \/ labels_empty)
    /\ ap_pre' = video_segments
    /\ ap_calls' = ap_calls + 1
    /\ UNCHANGED << frame_count, warnings >>
    /\ UNCHANGED << kfVars, fbVars, runVars, mainVars, saveVars, rgVars, ptVars,
                    ssVars >>

NextAdd == CallAddPoints

SpecAdd == InitAdd /\ [][NextAdd]_vars

(***************************************************************************)
(* C28: add_points leaves the store as it was whenever it returns None:    *)
(* with empty points or labels it returns None without calling the Oracle, *)
(* and when the Oracle raises it returns None without writing.  A mask is  *)
(* stored for (frame_idx, current_obj_id) only when the Oracle call        *)
(* succeeded, and the mask returned is the stored one; no other frame's    *)
(* entry changes.                                                          *)
(***************************************************************************)
C28_AddPointsStoresOnlyOnSuccess ==
    ap_calls >= 1 =>
        /\ ap_empty => (ap_ret.none /\ ~ap_called)
        /\ ap_ret.none => video_segments = ap_pre
        /\ video_segments # ap_pre => (ap_called /\ ~ap_ret.none)
        /\ ~ap_ret.none =>
              /\ ap_called
              /\ HasMask(video_segments, ap_frame)
              /\ video_segments[ap_frame][current_obj_id] = ap_ret.mask
              /\ DOMAIN video_segments = DOMAIN ap_pre \cup {ap_frame}
              /\ \A g \in DOMAIN ap_pre : g # ap_frame => video_segments[g] = ap_pre[g]

\* a second call, on a frame that held no mask, in which the Oracle was
\* called and failed, after a first call that stored a mask
C28_Witness ==
    /\ ap_calls = 2
    /\ ap_called /\ ap_ret.none
    /\ ~HasMask(ap_pre, ap_frame)
    /\ ap_pre # << >>
    /\ \E g \in DOMAIN ap_pre : g # ap_frame

(***************************************************************************)
(* SpecFbIds: _fallback_processing on mask stores that also hold masks of  *)
(* an object other than the tracked one.                                   *)
(***************************************************************************)
MaxIdFrames == 3

\* an object id other than current_obj_id
OtherObjId == current_obj_id + 1

\* the masks the stores start with: all pixels set, or none
UniformMasks == { [p \in Pixels |-> b] : b \in BOOLEAN }

\* the entries of one frame: a mask of the tracked object, of the other
\* object, or of both
FrameEntries ==
    UNION { [O -> UniformMasks] : O \in (SUBSET {current_obj_id, OtherObjId}) \ {{}} }

StoresIds(fcount) ==
    UNION { [F -> FrameEntries] : F \in SUBSET (0..(fcount - 1)) }

InitFbIds ==
    /\ frame_count \in 1..MaxIdFrames
    /\ video_segments \in StoresIds(frame_count)
    /\ warnings = {}
    /\ FbIdle /\ KfIdle /\ RunIdle /\ MainIdle /\ SaveIdle /\ ExtIdle

SpecFbIds == InitFbIds /\ [][NextFb]_vars

(***************************************************************************)
(* C29: _fallback_processing only adds masks of the tracked object to      *)
(* frames of [start_idx, end_idx) that held none: no mask that existed is  *)
(* overwritten or removed, inside the range or outside it, and the masks   *)
(* of other objects stay as they were.                                     *)
(***************************************************************************)
C29_FallbackOnlyAdds ==
    fb_calls >= 1 =>
        /\ \A f \in DOMAIN fb_pre :
              /\ f \in DOMAIN video_segments
              /\ \A o \in DOMAIN fb_pre[f] :
                    /\ o \in DOMAIN video_segments[f]
                    /\ video_segments[f][o] = fb_pre[f][o]
        /\ \A f \in DOMAIN video_segments : \A o \in DOMAIN video_segments[f] :
              (f \notin DOMAIN fb_pre \/ o \notin DOMAIN fb_pre[f]) =>
                 /\ o = current_obj_id
                 /\ f \in FbRange
                 /\ ~FbMasked(f)

\* a frame of the range that held only a mask of the other object was given
\* a mask of the tracked one, next to a frame of the range that held one
C29_Witness ==
    /\ fb_calls >= 1
    /\ \E f \in FbRange :
          /\ f \in DOMAIN fb_pre
          /\ DOMAIN fb_pre[f] = {OtherObjId}
          /\ HasMask(video_segments, f)
          /\ video_segments[f][current_obj_id] # video_segments[f][OtherObjId]
    /\ \E g \in FbRange : FbMasked(g)

====
